---- MODULE Spec2Model ----
(***************************************************************************)
(* Model of the GPAI adaptive memory-and-selection engine:                 *)
(*   - hooks/PreCompress.ts  : hot/warm/cold tier rotation                 *)
(*   - utils/memory.ts       : memory entry creation and append            *)
(*   - utils/profile.ts      : success-pattern recompute trigger           *)
(*   - hooks/BeforeAgent.ts  : dynamic composition and hard constraints    *)
(* Time is in milliseconds, measured from the model's clock origin.        *)
(***************************************************************************)
EXTENDS Integers, Sequences, FiniteSets, TLC

VARIABLES
    hot,        \* data/memory/hot.jsonl  : sequence of stored entries
    warm,       \* data/memory/warm.jsonl
    cold,       \* data/memory/cold.jsonl
    now,        \* Date.now()
    nextId,     \* number of entries saved so far (feeds generateMemoryId)
    report,     \* metadata returned by handlePreCompress, when it was the last operation
    last,       \* the operation that produced this state
    runs,       \* rotations since the last append, counted up to 2
    learningConfig, \* config/learning.json : the successPatternRecompute section
    historyRows,    \* data/history.json : number of rows
    ratedRows,      \* data/history.json : number of rows with a numeric rating
    learningMeta,   \* profile.learningMeta.successPatternRecompute
    recompute,      \* result of the last maybeRecomputeSuccessPatterns call
    options,        \* options of the last maybeRecomputeSuccessPatterns call
    recomputes,     \* number of recomputes that have run
    turn,           \* handleBeforeAgent: inputs and results of the turn
    call,           \* handleBeforeAgent as a whole: the last call and what it returned
    workItems,      \* data/work : META.json of every item, by item id
    workClock,      \* Date.now() of the work-item operations
    finalized,      \* input and target of the last finalizeLatestWorkItem call
    ledger,         \* data/history.json : the history entries, oldest first
    rated,          \* input and target of the last applyRatingToLatestHistory call
    writers,        \* processes inside appendHistoryEntry: position and array read
    profile,        \* data/profile.json : successPatterns and the recompute meta
    patNow,         \* Date.now() of the learning operations
    probe,          \* a stored pattern and the decay step of two updates of it
    hook,           \* the last task hook that ran: its input and what it recorded
    rotation,       \* a handlePreCompress call of another process: its position and what it read
    learned         \* the last learning operation: its input and its result

memVars == <<hot, warm, cold, now, nextId, report, last, runs>>

----------------------------------------------------------------------------
(* Bounds of the model *)

MaxSaves == 2

\* the ledger holds at most this many times historyDeltaThreshold rows
MaxLedgerRounds == 2

\* recomputes that run in one behaviour
MaxRecomputes == 2

----------------------------------------------------------------------------
(* PRECOMPRESS_POLICY.  The three count limits are 20, 300 and 1000 in the  *)
(* source; the model keeps their order (hot < warm < cold) at a size whose  *)
(* tier contents can be enumerated.  The retention window and the          *)
(* compression ratio (0.85, as a percentage) have the source's values.     *)

hotKeepCount == 2
warmMaxCount == 3
coldMaxCount == 4
warmRetentionDays == 21
hotCompressionPercent == 85

DayMs == 24 * 60 * 60 * 1000
RetentionMs == warmRetentionDays * DayMs

----------------------------------------------------------------------------
(* Helpers on sequences *)

Min(S) == CHOOSE x \in S : \A y \in S : x <= y
Max(S) == CHOOSE x \in S : \A y \in S : x >= y

Slice(s, from) == SubSeq(s, from + 1, Len(s))
SliceTo(s, to) == SubSeq(s, 1, IF to < Len(s) THEN to ELSE Len(s))

----------------------------------------------------------------------------
(* utils/memory.ts *)

NoTimestamp == 0 - 1

\* variant: the input is ignored and every timestamp becomes the current time
toIsoTimestampAlwaysNow(input, nowMs) == nowMs

\* toIsoTimestamp: a missing or unparsable input becomes the current time
toIsoTimestamp(input, nowMs) == IF input < 0 THEN nowMs ELSE input

generateMemoryId(n) == <<"m", n>>

createMemoryEntry(tier, input, nowMs, n) ==
    [ id        |-> generateMemoryId(n),
      tier      |-> tier,
      type      |-> input.type,
      sessionId |-> input.sessionId,
      intent    |-> input.intent,
      timestamp |-> toIsoTimestamp(input.timestamp, nowMs),
      content   |-> input.content ]

\* normalizeMemoryEntry as applied to a stored row: the tier is overwritten by
\* the tier of the file, the timestamp is re-normalized
normalizeMemoryEntry(raw, tier, nowMs) ==
    [ raw EXCEPT !.tier = tier, !.timestamp = toIsoTimestamp(raw.timestamp, nowMs) ]

----------------------------------------------------------------------------
(* hooks/PreCompress.ts *)

parseTimestampMs(timestamp) == IF timestamp < 0 THEN 0 ELSE timestamp

TimestampKeys(entries) ==
    { parseTimestampMs(entries[i].timestamp) : i \in DOMAIN entries }

RECURSIVE ConcatByKey(_, _, _)
ConcatByKey(entries, keys, order) ==
    IF keys = {} THEN <<>>
    ELSE LET k == IF order = "asc" THEN Min(keys) ELSE Max(keys)
         IN  SelectSeq(entries, LAMBDA e : parseTimestampMs(e.timestamp) = k)
                 \o ConcatByKey(entries, keys \ {k}, order)

\* [...entries].sort(by timestamp): Array.prototype.sort is stable
sortByTimestamp(entries, order) ==
    ConcatByKey(entries, TimestampKeys(entries), order)

\* variant: the identity leaves the content out
memoryIdentityWithoutContent(entry) ==
    <<entry.type, entry.sessionId, entry.intent, entry.timestamp>>

memoryIdentity(entry) ==
    <<entry.type, entry.sessionId, entry.intent, entry.timestamp, entry.content>>

\* One iteration of the forEach of dedupeEntries on acc = [seen, deduped]
DedupeStep(acc, entry) ==
    LET identity == memoryIdentity(entry)
    IN  IF identity \in acc.seen
        THEN acc
        ELSE [ seen |-> acc.seen \cup {identity}, deduped |-> Append(acc.deduped, entry) ]

\* The forEach over entries[lo..hi], left to right. The range is split in
\* halves and the left half is evaluated (its length is read) before the right
\* half starts, which keeps the evaluation depth logarithmic.
RECURSIVE DedupeRange(_, _, _, _)
DedupeRange(entries, lo, hi, acc) ==
    IF lo > hi THEN acc
    ELSE IF lo = hi THEN DedupeStep(acc, entries[lo])
    ELSE LET mid  == (lo + hi) \div 2
             left == DedupeRange(entries, lo, mid, acc)
         IN  IF Len(left.deduped) >= 0
             THEN DedupeRange(entries, mid + 1, hi, left)
             ELSE left

dedupeEntries(entries) ==
    DedupeRange(entries, 1, Len(entries), [ seen |-> {}, deduped |-> <<>> ]).deduped

loadTierEntries(file, tier, nowMs) ==
    [ i \in DOMAIN file |-> normalizeMemoryEntry(file[i], tier, nowMs) ]

isOlderThanDays(entry, days, nowMs) ==
    nowMs - parseTimestampMs(entry.timestamp) > days * DayMs

\* variant: one row too many leaves hot
HotSplitOffByOne(hotEntries) == Len(hotEntries) - hotKeepCount + 1

\* split = hotEntries.length - hotKeepCount
HotSplit(hotEntries) == Len(hotEntries) - hotKeepCount

\* warmOverflow = Math.max(0, warmRecent.length - warmMaxCount)
WarmOverflow(warmRecent) == Max({0, Len(warmRecent) - warmMaxCount})

\* variant: one row too few is pruned
ColdPrunedCountOffByOne(coldCombined) == Max({0, Len(coldCombined) - coldMaxCount - 1})

\* coldPrunedCount = Math.max(0, coldCombined.length - coldMaxCount)
ColdPrunedCount(coldCombined) == Max({0, Len(coldCombined) - coldMaxCount})

\* The body of handlePreCompress up to the three writeTierEntries calls
Rotation(hotFile, warmFile, coldFile, nowMs, tokenUsage, maxTokens) ==
    LET hotEntries  == sortByTimestamp(loadTierEntries(hotFile, "hot", nowMs), "asc")
        warmEntries == sortByTimestamp(loadTierEntries(warmFile, "warm", nowMs), "asc")
        coldEntries == sortByTimestamp(loadTierEntries(coldFile, "cold", nowMs), "asc")
        shouldRotateHot ==
            \/ Len(hotEntries) > hotKeepCount
            \/ tokenUsage * 100 >= maxTokens * hotCompressionPercent
        rotateHot == shouldRotateHot /\ Len(hotEntries) > hotKeepCount
        split     == HotSplit(hotEntries)
        hotToWarm == IF rotateHot THEN SliceTo(hotEntries, split) ELSE <<>>
        nextHot   == IF rotateHot THEN Slice(hotEntries, split) ELSE hotEntries
        warmCombined == sortByTimestamp(dedupeEntries(warmEntries \o hotToWarm), "asc")
        warmToColdByAge ==
            SelectSeq(warmCombined, LAMBDA e : isOlderThanDays(e, warmRetentionDays, nowMs))
        warmRecent ==
            SelectSeq(warmCombined, LAMBDA e : ~isOlderThanDays(e, warmRetentionDays, nowMs))
        warmOverflow == WarmOverflow(warmRecent)
        warmToColdByCount ==
            IF warmOverflow > 0 THEN SliceTo(warmRecent, warmOverflow) ELSE <<>>
        nextWarm == IF warmOverflow > 0 THEN Slice(warmRecent, warmOverflow) ELSE warmRecent
        warmToCold ==
            sortByTimestamp(dedupeEntries(warmToColdByAge \o warmToColdByCount), "asc")
        coldCombined == sortByTimestamp(dedupeEntries(coldEntries \o warmToCold), "asc")
        coldPrunedCount == ColdPrunedCount(coldCombined)
        nextCold ==
            IF coldPrunedCount > 0 THEN Slice(coldCombined, coldPrunedCount) ELSE coldCombined
    IN  [ hot  |-> nextHot,
          warm |-> nextWarm,
          cold |-> nextCold,
          metadata |->
            [ hotToWarmCount  |-> Len(hotToWarm),
              warmToColdCount |-> Len(warmToCold),
              coldPrunedCount |-> coldPrunedCount,
              finalHotCount   |-> Len(nextHot),
              finalWarmCount  |-> Len(nextWarm),
              finalColdCount  |-> Len(nextCold) ] ]

----------------------------------------------------------------------------
(* Specification MemSpec: the event store under saves, rotations and time *)

\* Bulk content of a tier file: n distinct rows written at FillTime
FillTime(tier) == IF tier = "hot" THEN 1 ELSE 0

Fill(tier, n) ==
    [ i \in 1..n |->
        [ id        |-> <<tier, i>>,
          tier      |-> tier,
          type      |-> "task_result",
          sessionId |-> "s1",
          intent    |-> "analysis",
          timestamp |-> FillTime(tier),
          content   |-> <<tier, i>> ] ]

NoReport ==
    [ hotToWarmCount |-> 0, warmToColdCount |-> 0, coldPrunedCount |-> 0,
      finalHotCount |-> 0, finalWarmCount |-> 0, finalColdCount |-> 0,
      preHot |-> 0, preWarm |-> 0, preCold |-> 0 ]

----------------------------------------------------------------------------
(* utils/profile.ts: the success-pattern recompute trigger.                 *)
(* The ledger data/history.json is seen by the trigger through two numbers: *)
(* rows.length and countRatedRows(rows).  Instants are milliseconds from    *)
(* the model's clock origin; configuration values are whole numbers, on     *)
(* which Math.floor changes nothing.                                        *)

SUCCESS_PATTERN_RECOMPUTE_POLICY ==
    [ historyDeltaThreshold     |-> 30,
      ratedDeltaThreshold       |-> 10,
      minIntervalMs             |-> 15 * 60 * 1000,
      forceDeltaWithoutInterval |-> 90,
      maxPatterns               |-> 50 ]

\* a key that config/learning.json does not hold (or holds as a non-number)
Absent == 0 - 1

normalizeInteger(value, fallback, min, max) ==
    IF value = Absent THEN fallback
    ELSE IF value < min \/ value > max THEN fallback
    ELSE value

\* section is the successPatternRecompute object of config/learning.json
loadSuccessPatternRecomputePolicy(section) ==
    LET defaultIntervalMinutes ==
            SUCCESS_PATTERN_RECOMPUTE_POLICY.minIntervalMs \div (60 * 1000)
        historyDeltaThreshold ==
            normalizeInteger(section.historyDeltaThreshold,
                SUCCESS_PATTERN_RECOMPUTE_POLICY.historyDeltaThreshold, 1, 10000)
        ratedDeltaThreshold ==
            normalizeInteger(section.ratedDeltaThreshold,
                SUCCESS_PATTERN_RECOMPUTE_POLICY.ratedDeltaThreshold, 1, 10000)
        minIntervalMinutes ==
            normalizeInteger(section.minIntervalMinutes,
                defaultIntervalMinutes, 1, 24 * 60)
        forceDeltaWithoutInterval ==
            normalizeInteger(section.forceDeltaWithoutInterval,
                historyDeltaThreshold * 3, historyDeltaThreshold, 100000)
        maxPatterns ==
            normalizeInteger(section.maxPatterns,
                SUCCESS_PATTERN_RECOMPUTE_POLICY.maxPatterns, 10, 500)
    IN  [ historyDeltaThreshold     |-> historyDeltaThreshold,
          ratedDeltaThreshold       |-> ratedDeltaThreshold,
          minIntervalMs             |-> minIntervalMinutes * 60 * 1000,
          forceDeltaWithoutInterval |-> forceDeltaWithoutInterval,
          maxPatterns               |-> maxPatterns ]

\* meta.lastRunAt of a profile that no recompute has written yet
NoRunAt == 0 - 1

\* readRecomputeMeta(profile) of a profile without learningMeta
NoRecomputeMeta ==
    [ lastRunAt |-> NoRunAt, lastHistoryCount |-> 0, lastRatedCount |-> 0,
      lastReason |-> "none" ]

\* the counts of the run left as they were
writeRecomputeMetaWithoutCounts(meta, input) ==
    [ meta EXCEPT !.lastRunAt  = input.runAt,
                  !.lastReason = input.reason ]

writeRecomputeMeta(meta, input) ==
    [ meta EXCEPT !.lastRunAt        = input.runAt,
                  !.lastHistoryCount = input.historyCount,
                  !.lastRatedCount   = input.ratedCount,
                  !.lastReason       = input.reason ]

\* the rows of the ledger, whatever the last run recorded
DeltaHistorySinceStart(counts, meta) == counts.historyCount

\* Math.max(0, counts.historyCount - meta.lastHistoryCount)
DeltaHistory(counts, meta) == Max({0, counts.historyCount - meta.lastHistoryCount})

DeltaRated(counts, meta) == Max({0, counts.ratedCount - meta.lastRatedCount})

HistoryReset(counts, meta) ==
    \/ counts.historyCount < meta.lastHistoryCount
    \/ counts.ratedCount < meta.lastRatedCount

ElapsedMs(meta, nowMs) ==
    Max({0, nowMs - (IF meta.lastRunAt = NoRunAt THEN 0 ELSE meta.lastRunAt)})

IntervalPassedAlways(meta, nowMs, policy) == TRUE

IntervalPassed(meta, nowMs, policy) ==
    meta.lastRunAt = NoRunAt \/ ElapsedMs(meta, nowMs) >= policy.minIntervalMs

HistoryThresholdMetStrict(deltaHistory, policy) ==
    deltaHistory > policy.historyDeltaThreshold

HistoryThresholdMet(deltaHistory, policy) ==
    deltaHistory >= policy.historyDeltaThreshold

Decision(shouldRun, reason, deltaHistory, deltaRated) ==
    [ shouldRun |-> shouldRun, reason |-> reason,
      deltaHistory |-> deltaHistory, deltaRated |-> deltaRated ]

\* the cooldown looked at before the two force thresholds
decideRecomputeCooldownFirst(counts, meta, nowMs, force, policy) ==
    LET deltaHistory == DeltaHistory(counts, meta)
        deltaRated   == DeltaRated(counts, meta)
    IN  IF counts.historyCount = 0
            THEN Decision(FALSE, "empty-history", deltaHistory, deltaRated)
        ELSE IF force
            THEN Decision(TRUE, "force", deltaHistory, deltaRated)
        ELSE IF ~IntervalPassed(meta, nowMs, policy)
            THEN Decision(FALSE, "cooldown", deltaHistory, deltaRated)
        ELSE IF deltaHistory >= policy.forceDeltaWithoutInterval
            THEN Decision(TRUE, "history-force-threshold", deltaHistory, deltaRated)
        ELSE IF deltaRated >= policy.ratedDeltaThreshold * 3
            THEN Decision(TRUE, "rating-force-threshold", deltaHistory, deltaRated)
        ELSE IF HistoryReset(counts, meta)
            THEN Decision(TRUE, "history-reset", deltaHistory, deltaRated)
        ELSE IF HistoryThresholdMet(deltaHistory, policy)
            THEN Decision(TRUE, "history-threshold", deltaHistory, deltaRated)
        ELSE IF deltaRated >= policy.ratedDeltaThreshold
            THEN Decision(TRUE, "rating-threshold", deltaHistory, deltaRated)
        ELSE Decision(FALSE, "threshold-not-met", deltaHistory, deltaRated)

decideRecompute(counts, meta, nowMs, force, policy) ==
    LET deltaHistory == DeltaHistory(counts, meta)
        deltaRated   == DeltaRated(counts, meta)
    IN  IF counts.historyCount = 0
            THEN Decision(FALSE, "empty-history", deltaHistory, deltaRated)
        ELSE IF force
            THEN Decision(TRUE, "force", deltaHistory, deltaRated)
        ELSE IF deltaHistory >= policy.forceDeltaWithoutInterval
            THEN Decision(TRUE, "history-force-threshold", deltaHistory, deltaRated)
        ELSE IF deltaRated >= policy.ratedDeltaThreshold * 3
            THEN Decision(TRUE, "rating-force-threshold", deltaHistory, deltaRated)
        ELSE IF ~IntervalPassed(meta, nowMs, policy)
            THEN Decision(FALSE, "cooldown", deltaHistory, deltaRated)
        ELSE IF HistoryReset(counts, meta)
            THEN Decision(TRUE, "history-reset", deltaHistory, deltaRated)
        ELSE IF HistoryThresholdMet(deltaHistory, policy)
            THEN Decision(TRUE, "history-threshold", deltaHistory, deltaRated)
        ELSE IF deltaRated >= policy.ratedDeltaThreshold
            THEN Decision(TRUE, "rating-threshold", deltaHistory, deltaRated)
        ELSE Decision(FALSE, "threshold-not-met", deltaHistory, deltaRated)

\* SuccessPatternRecomputeResult before any check was made
NoRecompute ==
    [ triggered |-> FALSE, reason |-> "none", historyCount |-> 0,
      ratedCount |-> 0, deltaHistory |-> 0, deltaRated |-> 0,
      runAt |-> NoRunAt ]

\* options of maybeRecomputeSuccessPatterns before any check was made
NoOptions == [ force |-> FALSE, now |-> 0 ]

----------------------------------------------------------------------------
(* hooks/BeforeAgent.ts: ranking, dynamic composition and hard constraints. *)
(* Scores and similarity boosts are in thousandths of a point, so that the  *)
(* policy values 1.2, 0.8 and 7.5 and the comparators' tolerance 0.001 are  *)
(* whole numbers.  A role list is a sequence of role ids.                   *)

AGENT_COMPOSITION_POLICY ==
    [ maxAgents           |-> 4,
      minBaseAgents       |-> 1,
      replacementMinScore |-> 2000,
      replacementDelta    |-> 1000,
      injectionMinScore   |-> 1200,
      minSimilarityBoost  |-> 800,
      forceInjectionScore |-> 7500 ]

\* Math.abs(diff) > 0.001
ScoreTolerance == 1

Agents == { "analyst", "architect", "devil", "engineer", "researcher", "writer" }

\* a.localeCompare(b) on the role ids of the model: their alphabetical order
LocaleRank(agent) ==
    CASE agent = "analyst"    -> 1
      [] agent = "architect"  -> 2
      [] agent = "devil"      -> 3
      [] agent = "engineer"   -> 4
      [] agent = "researcher" -> 5
      [] agent = "writer"     -> 6
      [] OTHER                -> 0

localeCompare(a, b) == LocaleRank(a) - LocaleRank(b)

Includes(values, value) == \E i \in DOMAIN values : values[i] = value

\* Array.prototype.indexOf, counted from 1; 0 when the value is absent
IndexOf(values, value) ==
    IF Includes(values, value)
        THEN Min({ i \in DOMAIN values : values[i] = value })
        ELSE 0

\* new Map(values.map((v, index) => [v, index])).get(value): the last index
LastIndexOf(values, value) ==
    IF Includes(values, value)
        THEN Max({ i \in DOMAIN values : values[i] = value })
        ELSE 0

\* Array.prototype.slice(0, n)
Take(values, n) == SubSeq(values, 1, Min({n, Len(values)}))

\* Array.prototype.sort(compare): stable; values[i] goes before values[j]
\* when compare[values[i], values[j]] is negative, and keeps its place when
\* it is 0.  The comparator is a function over pairs of the sorted values.
StableSort(values, compare) ==
    LET order == SortSeq([ i \in DOMAIN values |-> i ],
                         LAMBDA i, j :
                            \/ compare[values[i], values[j]] < 0
                            \/ /\ compare[values[i], values[j]] = 0
                               /\ i < j)
    IN  [ k \in DOMAIN values |-> values[order[k]] ]

RECURSIVE UniqueFrom(_, _, _)
UniqueFrom(values, i, acc) ==
    IF i > Len(values) THEN acc
    ELSE UniqueFrom(values, i + 1,
            IF values[i] = "" \/ Includes(acc, values[i])
                THEN acc ELSE Append(acc, values[i]))

uniqueAgents(values) == UniqueFrom(values, 1, << >>)

\* (score.get(b) || 0) - (score.get(a) || 0), then the tie-break
ByScoreDesc(score, a, b, tieBreak) ==
    LET diff == score[b] - score[a]
    IN  IF diff > ScoreTolerance \/ 0 - diff > ScoreTolerance
            THEN diff ELSE tieBreak

\* The tail of scoreAgents: the ranking of all candidates by their score
RankAgents(score, baseAgents, allCandidates) ==
    LET baseOrder(agent) == LastIndexOf(baseAgents, agent)
        sortedBase ==
            StableSort(uniqueAgents(baseAgents),
                [ a \in Agents, b \in Agents |->
                    ByScoreDesc(score, a, b, baseOrder(a) - baseOrder(b)) ])
        extra ==
            StableSort(
                SelectSeq(SelectSeq(allCandidates, LAMBDA agent : ~Includes(sortedBase, agent)),
                       LAMBDA agent : score[agent] > 2000),
                [ a \in Agents, b \in Agents |-> score[b] - score[a] ])
        baseDiff(a, b) ==
            IF Includes(baseAgents, a) = Includes(baseAgents, b)
                THEN baseOrder(a) - baseOrder(b)
                ELSE IF Includes(baseAgents, a) THEN 0 - 1 ELSE 1
    IN  StableSort(uniqueAgents(sortedBase \o extra \o allCandidates),
            [ a \in Agents, b \in Agents |->
                ByScoreDesc(score, a, b,
                    IF baseDiff(a, b) # 0 THEN baseDiff(a, b)
                    ELSE localeCompare(a, b)) ])

Known(knownAgents, agent) ==
    IF Len(knownAgents) > 0 THEN Includes(knownAgents, agent) ELSE TRUE

BaseCount(selected, baseAgents) ==
    Cardinality({ i \in DOMAIN selected : Includes(baseAgents, selected[i]) })

\* sortSelectedByScoreAsc(): the indices of selected, lowest score first
SortSelectedByScoreAsc(selected, score) ==
    StableSort([ i \in DOMAIN selected |-> i ],
        [ i \in DOMAIN selected, j \in DOMAIN selected |->
            score[selected[i]] - score[selected[j]] ])

\* the last role of the list instead of the first
BaselineAnchorLast(baseAgents) ==
    IF Len(uniqueAgents(baseAgents)) > 0
        THEN uniqueAgents(baseAgents)[Len(uniqueAgents(baseAgents))] ELSE ""

\* uniqueAgents(baseAgents)[0]; "" stands for undefined
BaselineAnchor(baseAgents) ==
    IF Len(uniqueAgents(baseAgents)) > 0 THEN uniqueAgents(baseAgents)[1] ELSE ""

\* May the candidate take the place of selected[index]?
Replaceable(selected, index, candidateScore, score, baseAgents, baselineAnchor) ==
    LET existing == selected[index]
        replacingBase == Includes(baseAgents, existing)
    IN  /\ existing # baselineAnchor
        /\ ~(replacingBase /\ BaseCount(selected, baseAgents)
                                <= AGENT_COMPOSITION_POLICY.minBaseAgents)
        /\ candidateScore >= score[existing] + AGENT_COMPOSITION_POLICY.replacementDelta

\* One turn of candidateQueue.forEach
ComposeStep(acc, candidate, score, baseAgents, baselineAnchor) ==
    LET selected == acc.selected
        candidateScore == score[candidate]
        order == SortSelectedByScoreAsc(selected, score)
        found == { k \in DOMAIN order :
                    Replaceable(selected, order[k], candidateScore, score,
                                baseAgents, baselineAnchor) }
    IN  IF candidateScore < AGENT_COMPOSITION_POLICY.replacementMinScore THEN acc
        ELSE IF Len(selected) < AGENT_COMPOSITION_POLICY.maxAgents
            THEN [ acc EXCEPT !.selected = Append(selected, candidate),
                              !.injected = @ \cup {candidate} ]
        ELSE IF found = {} THEN acc
        ELSE LET replaceIndex == order[Min(found)]
                 removed == selected[replaceIndex]
             IN  [ selected |-> [ selected EXCEPT ![replaceIndex] = candidate ],
                   injected |-> acc.injected \cup {candidate},
                   replaced |-> IF Includes(baseAgents, removed)
                                    THEN acc.replaced \cup {removed}
                                    ELSE acc.replaced ]

RECURSIVE ComposeLoop(_, _, _, _, _, _)
ComposeLoop(queue, i, acc, score, baseAgents, baselineAnchor) ==
    IF i > Len(queue) THEN acc
    ELSE ComposeLoop(queue, i + 1,
            ComposeStep(acc, queue[i], score, baseAgents, baselineAnchor),
            score, baseAgents, baselineAnchor)

\* slice(maxAgents) instead of slice(0, maxAgents)
BaselineSliceFrom(score, baseAgents, knownAgents) ==
    LET sorted ==
            StableSort(
                SelectSeq(uniqueAgents(baseAgents), LAMBDA agent : Known(knownAgents, agent)),
                [ a \in Agents, b \in Agents |-> ByScoreDesc(score, a, b,
                    IndexOf(baseAgents, a) - IndexOf(baseAgents, b)) ])
    IN  SubSeq(sorted, AGENT_COMPOSITION_POLICY.maxAgents + 1, Len(sorted))

\* the known baseline roles, highest score first, at most maxAgents of them
Baseline(score, baseAgents, knownAgents) ==
    Take(StableSort(
            SelectSeq(uniqueAgents(baseAgents), LAMBDA agent : Known(knownAgents, agent)),
            [ a \in Agents, b \in Agents |-> ByScoreDesc(score, a, b,
                IndexOf(baseAgents, a) - IndexOf(baseAgents, b)) ]),
         AGENT_COMPOSITION_POLICY.maxAgents)

\* the filter without its similarity and forceInjectionScore conditions
CandidateQueueUngated(fallbackRanked, selected, score, baseAgents, similarityBoost) ==
    SelectSeq(fallbackRanked,
        LAMBDA agent :
            /\ ~(Includes(baseAgents, agent) \/ Includes(selected, agent))
            /\ score[agent] >= AGENT_COMPOSITION_POLICY.injectionMinScore)

\* candidateQueue: the ranked roles that may be injected
CandidateQueue(fallbackRanked, selected, score, baseAgents, similarityBoost) ==
    SelectSeq(fallbackRanked,
        LAMBDA agent :
            /\ ~(Includes(baseAgents, agent) \/ Includes(selected, agent))
            /\ score[agent] >= AGENT_COMPOSITION_POLICY.injectionMinScore
            /\ \/ score[agent] >= AGENT_COMPOSITION_POLICY.forceInjectionScore
               \/ similarityBoost[agent] >= AGENT_COMPOSITION_POLICY.minSimilarityBoost)

\* The repair after the loop: a baseline role takes the weakest non-baseline seat
EnsureBase(selected, baseline, score, baseAgents) ==
    LET nonBase == SelectSeq(SortSelectedByScoreAsc(selected, score),
                        LAMBDA i : ~Includes(baseAgents, selected[i]))
    IN  IF BaseCount(selected, baseAgents) >= AGENT_COMPOSITION_POLICY.minBaseAgents
            THEN selected
        ELSE IF Len(baseline) = 0 THEN selected
        ELSE IF Len(nonBase) > 0
            THEN [ selected EXCEPT ![nonBase[1]] = baseline[1] ]
        ELSE IF Len(selected) < AGENT_COMPOSITION_POLICY.maxAgents
            THEN Append(selected, baseline[1])
        ELSE selected

composeDynamicAgents(scoring, baseAgents, knownAgents, similarityBoost) ==
    LET score == scoring.scoreByAgent
        baselineAnchor == BaselineAnchor(baseAgents)
        fallbackRanked ==
            SelectSeq(scoring.rankedAgents, LAMBDA agent : Known(knownAgents, agent))
        baseline == Baseline(score, baseAgents, knownAgents)
        candidateQueue ==
            CandidateQueue(fallbackRanked, baseline, score, baseAgents, similarityBoost)
        looped == ComposeLoop(candidateQueue, 1,
                    [ selected |-> baseline, injected |-> {}, replaced |-> {} ],
                    score, baseAgents, baselineAnchor)
        ordered ==
            StableSort(uniqueAgents(EnsureBase(looped.selected, baseline, score, baseAgents)),
                [ a \in Agents, b \in Agents |-> ByScoreDesc(score, a, b, localeCompare(a, b)) ])
    IN  IF Len(looped.selected) = 0
            THEN [ agents |-> Take(fallbackRanked, AGENT_COMPOSITION_POLICY.maxAgents),
                   injectedAgents |-> {},
                   replacedBaselineAgents |-> {} ]
            ELSE [ agents |-> Take(ordered, AGENT_COMPOSITION_POLICY.maxAgents),
                   injectedAgents |-> looped.injected,
                   replacedBaselineAgents |-> looped.replaced ]

\* parseAgentConstraints of a prompt without constraint lines
NoConstraints == [ include |-> << >>, exclude |-> << >>, only |-> FALSE ]

\* constraints.include as written, exclusions not applied
IncludedUnfiltered(constraints) == constraints.include

Included(constraints) ==
    SelectSeq(constraints.include, LAMBDA agent : ~Includes(constraints.exclude, agent))

\* the fallback list as written, exclusions not applied
NotExcludedAll(values, constraints) == uniqueAgents(values)

\* uniqueAgents(values).filter((agent) => !excluded.has(agent))
NotExcluded(values, constraints) ==
    SelectSeq(uniqueAgents(values), LAMBDA agent : ~Includes(constraints.exclude, agent))

applyAgentConstraints(rankedAgents, baseAgents, constraints, knownAgents) ==
    LET included == Included(constraints)
        ranked   == NotExcluded(rankedAgents, constraints)
        rest     == SelectSeq(ranked, LAMBDA agent : ~Includes(included, agent))
        next     == IF Len(included) > 0 THEN included \o rest ELSE ranked
        baseFallback  == NotExcluded(baseAgents, constraints)
        knownFallback == NotExcluded(knownAgents, constraints)
    IN  IF constraints.only /\ Len(included) > 0 THEN Take(included, 4)
        ELSE IF Len(next) > 0 THEN Take(next, 4)
        ELSE IF Len(baseFallback) > 0 THEN Take(baseFallback, 4)
        ELSE IF Len(knownFallback) > 0 THEN Take(knownFallback, 4)
        ELSE Take(next, 4)

----------------------------------------------------------------------------
(* utils/work.ts: work items.  data/work holds one directory per item,     *)
(* named after the item's id, with the item in META.json; the model keeps  *)
(* the directory as a function from ids to items.  The id and createdAt    *)
(* are both the instant of creation: toISOString has a fixed width, so     *)
(* localeCompare on createdAt orders items as their instants do.           *)

\* the instants at which the model's clock can stand
MaxInstant == 3

\* the execution field of an item that was never finalized
NoExecution == "<none>"

\* createWorkItem(gpaiDir, input) at the instant nowMs: the META.json written
NewWorkItem(input, nowMs) ==
    [ id |-> nowMs, sessionId |-> input.sessionId,
      intent |-> input.intent, agents |-> input.agents,
      createdAt |-> nowMs, updatedAt |-> nowMs,
      status |-> "in-progress", execution |-> NoExecution ]

\* createWorkItem: data/work after the write; a directory of the same id is
\* written over
createWorkItem(items, input, nowMs) ==
    [ id \in DOMAIN items \cup { nowMs } |->
        IF id = nowMs THEN NewWorkItem(input, nowMs) ELSE items[id] ]

\* parseWorkFile, on the fields the model keeps: sessionId || 'unknown-session'
parseWorkFile(item) ==
    [ item EXCEPT !.sessionId =
        IF item.sessionId = "" THEN "unknown-session" ELSE item.sessionId ]

\* listWorkFiles: the parsed items, most recently created first
listWorkFiles(items) ==
    LET parsed == { parseWorkFile(items[id]) : id \in DOMAIN items }
    IN  [ k \in 1 .. Cardinality(parsed) |->
            CHOOSE ref \in parsed :
                Cardinality({ other \in parsed : other.createdAt > ref.createdAt })
                    = k - 1 ]

\* no item: finalizeLatestWorkItem returns null
NoTarget == 0

\* the first find only, without the fallback on the session's own items
FinalizeTargetInProgressOnly(refs, input) ==
    LET open ==
            SelectSeq(refs, LAMBDA ref :
                /\ ref.status = "in-progress"
                /\ input.sessionId # "" => ref.sessionId = input.sessionId)
    IN  IF Len(open) > 0 THEN open[1].id ELSE NoTarget

\* the two refs.find of finalizeLatestWorkItem: the id of the target
FinalizeTarget(refs, input) ==
    LET open ==
            SelectSeq(refs, LAMBDA ref :
                /\ ref.status = "in-progress"
                /\ input.sessionId # "" => ref.sessionId = input.sessionId)
        own ==
            SelectSeq(refs, LAMBDA ref :
                /\ input.sessionId # ""
                /\ ref.sessionId = input.sessionId)
    IN  IF Len(open) > 0 THEN open[1].id
        ELSE IF Len(own) > 0 THEN own[1].id
        ELSE NoTarget

\* status left as it was when the task failed
FinalizedKeepsStatusOnFailure(item, input, nowMs) ==
    [ item EXCEPT
        !.updatedAt = nowMs,
        !.status = IF input.success THEN "completed" ELSE item.status,
        !.execution = IF input.success THEN "success" ELSE "failure" ]

\* { ...target.workItem, updatedAt, status, resultSummary, execution }
Finalized(item, input, nowMs) ==
    [ item EXCEPT
        !.updatedAt = nowMs,
        !.status = IF input.success THEN "completed" ELSE "failed",
        !.execution = IF input.success THEN "success" ELSE "failure" ]

\* finalizeLatestWorkItem(gpaiDir, input) at the instant nowMs: data/work
\* afterwards and the id of the item returned
finalizeLatestWorkItem(items, input, nowMs) ==
    LET refs == listWorkFiles(items)
        target == FinalizeTarget(refs, input)
    IN  IF target = NoTarget
            THEN [ items |-> items, target |-> NoTarget ]
            ELSE [ items |->
                     [ items EXCEPT ![target] =
                         Finalized(parseWorkFile(items[target]), input, nowMs) ],
                   target |-> target ]

\* no finalizeLatestWorkItem call yet
NoFinalize == [ sessionId |-> "", success |-> FALSE, target |-> NoTarget ]

----------------------------------------------------------------------------
(* utils/work.ts: the outcome ledger data/history.json, a JSON array of    *)
(* history entries.  Every operation on it reads the whole file, changes   *)
(* the array in memory and writes the whole file back.                     *)

\* longest ledger the model builds
MaxLedger == 3

\* appendHistoryEntry calls of one process
MaxAppends == 2

\* an entry without a rating
NoRating == 0

\* history.unshift(entry): the entry is put in front
appendHistoryEntryInFront(history, entry) == << entry >> \o history

\* readHistoryEntries, history.push(entry), writeHistoryEntries
appendHistoryEntry(history, entry) == Append(history, entry)

\* the rows applyRatingToLatestHistory may rate: completed, and of the given
\* session when one is given ("" stands for none)
Rateable(history, input) ==
    { i \in DOMAIN history :
        /\ history[i].status = "completed"
        /\ input.sessionId # "" => history[i].sessionId = input.sessionId }

\* the scan started from the oldest row
RatingTargetOldest(history, input) ==
    IF Rateable(history, input) = {} THEN 0 ELSE Min(Rateable(history, input))

\* for (i = history.length - 1; i >= 0; i -= 1): the index of the first row
\* that is not skipped, 0 for targetIndex = -1
RatingTarget(history, input) ==
    IF Rateable(history, input) = {} THEN 0 ELSE Max(Rateable(history, input))

\* applyRatingToLatestHistory(gpaiDir, input): the ledger afterwards and the
\* index of the entry returned (0 for null)
applyRatingToLatestHistory(history, input) ==
    LET targetIndex == RatingTarget(history, input)
    IN  IF Len(history) = 0 \/ targetIndex = 0
            THEN [ history |-> history, target |-> 0 ]
            ELSE [ history |->
                     [ history EXCEPT ![targetIndex] =
                         [ @ EXCEPT !.rating = input.rating,
                                    !.feedback = input.feedback ] ],
                   target |-> targetIndex ]

\* the processes that append to the ledger
Writers == { "w1", "w2" }

\* no applyRatingToLatestHistory call yet
NoRated == [ sessionId |-> "", rating |-> NoRating, feedback |-> "", target |-> 0 ]

----------------------------------------------------------------------------
(* utils/profile.ts: the success patterns.  A successRate is a whole       *)
(* number of thousandths, as roundRate leaves it; a signal's weight is in  *)
(* hundredths; Math.pow(0.985, daysSince) is in ten-thousandths, so that a *)
(* decayed rate is in units of 10^-7 and a blended one in units of 10^-9.  *)
(* Instants are whole days of the model's clock, in milliseconds.  The     *)
(* composite key of a pattern is (task, method): toolCombo, project and    *)
(* complexity are the same for every task of the model.                    *)

\* toSignal / historySignal returning null
NoSignal == [ score |-> 0, weight |-> 0 ]

\* Math.max(1, Math.min(10, rating)) / 10 with weight 0.45
RatingSignal(rating) ==
    [ score |-> Max({ 1, Min({ 10, rating }) }) * 100, weight |-> 45 ]

\* toSignal(input): input.outcome is "success", "failure" or "" for a call
\* without a success flag
toSignal(input) ==
    IF input.rating # NoRating THEN RatingSignal(input.rating)
    ELSE IF input.outcome = "success" THEN [ score |-> 900, weight |-> 25 ]
    ELSE IF input.outcome = "failure" THEN [ score |-> 200, weight |-> 25 ]
    ELSE NoSignal

\* the status is looked at before the rating
historySignalStatusFirst(row) ==
    IF row.status = "completed" THEN [ score |-> 900, weight |-> 25 ]
    ELSE IF row.status = "failed" THEN [ score |-> 200, weight |-> 25 ]
    ELSE IF row.rating # NoRating THEN RatingSignal(row.rating)
    ELSE NoSignal

historySignal(row) ==
    IF row.rating # NoRating THEN RatingSignal(row.rating)
    ELSE IF row.status = "completed" THEN [ score |-> 900, weight |-> 25 ]
    ELSE IF row.status = "failed" THEN [ score |-> 200, weight |-> 25 ]
    ELSE NoSignal

\* rows.filter(typeof row.rating === 'number').length
countRatedRows(rows) == Len(SelectSeq(rows, LAMBDA row : row.rating # NoRating))

\* toMethod(agents): the non-empty role ids, joined in their order
toMethod(agents) == SelectSeq(agents, LAMBDA agent : agent # "")

buildPatternKey(pattern) == << pattern.task, pattern.method >>

\* Math.max(0, current - previous) / (1000 * 60 * 60 * 24)
getDaysBetween(previousMs, currentMs) ==
    Max({ 0, currentMs - previousMs }) \div DayMs

\* Math.pow(0.985, daysSince), in ten-thousandths
RECURSIVE Decay(_)
Decay(daysSince) ==
    IF daysSince = 0 THEN 10000 ELSE (Decay(daysSince - 1) * 985) \div 1000

\* the decay left out
DecayedRateWithoutDecay(successRate, daysSince) == successRate * 10000

\* 0.5 + (current.successRate - 0.5) * decay, in units of 10^-7
DecayedRate(successRate, daysSince) ==
    500 * 10000 + (successRate - 500) * Decay(daysSince)

\* the signal left out of the blend
NextRateWithoutSignal(decayedRate, signal) == decayedRate * 100

\* decayedRate * (1 - signal.weight) + signal.score * signal.weight, in
\* units of 10^-9
NextRate(decayedRate, signal) ==
    decayedRate * (100 - signal.weight) + signal.score * 10000 * signal.weight

\* clampRate, on a rate in thousandths
clampRate(value) == IF value < 0 THEN 0 ELSE IF value > 1000 THEN 1000 ELSE value

\* Math.round(clampRate(value) * 1000) / 1000, from units of 10^-9 to
\* thousandths
roundRate(value) == clampRate((value + 500000) \div 1000000)

\* the sample is not counted
NextSampleSizeKept(current) == current.sampleSize

\* (current.sampleSize || 1) + 1
NextSampleSize(current) ==
    (IF current.sampleSize = 0 THEN 1 ELSE current.sampleSize) + 1

\* the decay/blend step on an existing pattern, at the instant nowMs
BlendPattern(current, signal, nowMs) ==
    [ current EXCEPT
        !.successRate =
            roundRate(NextRate(
                DecayedRate(current.successRate,
                            getDaysBetween(current.lastUsed, nowMs)),
                signal)),
        !.lastUsed = nowMs,
        !.sampleSize = NextSampleSize(current) ]

\* the pattern made of the first signal of its key
FirstPattern(task, method, signal, nowMs) ==
    [ task |-> task, method |-> method,
      successRate |-> roundRate(signal.score * 1000000),
      lastUsed |-> nowMs, sampleSize |-> 1 ]

\* patterns.sort: successRate descending when the rates differ by more than
\* 0.001, else lastUsed descending
SortPatterns(patterns) ==
    LET range == { patterns[i] : i \in DOMAIN patterns }
    IN  StableSort(patterns,
            [ a \in range, b \in range |->
                IF b.successRate - a.successRate > 1
                      \/ a.successRate - b.successRate > 1
                    THEN b.successRate - a.successRate
                    ELSE b.lastUsed - a.lastUsed ])

\* loadSuccessPatterns(gpaiDir): the stored patterns, normalized
loadSuccessPatterns(stored) ==
    [ i \in DOMAIN stored.successPatterns |->
        [ stored.successPatterns[i] EXCEPT
            !.successRate = clampRate(@),
            !.sampleSize = Max({ 1, @ }) ] ]

\* position of the pattern of a key in a list, 0 when there is none
FindPattern(patterns, key) ==
    IF \E i \in DOMAIN patterns : buildPatternKey(patterns[i]) = key
        THEN Min({ i \in DOMAIN patterns : buildPatternKey(patterns[i]) = key })
        ELSE 0

\* the pattern updateSuccessPattern returns (updated), for an input with a
\* task, a method and a signal
UpdatedPattern(stored, input, nowMs) ==
    LET method == toMethod(input.agents)
        signal == toSignal(input)
        patterns == loadSuccessPatterns(stored)
        existingIndex == FindPattern(patterns, << input.task, method >>)
    IN  IF existingIndex > 0
            THEN BlendPattern(patterns[existingIndex], signal, nowMs)
            ELSE FirstPattern(input.task, method, signal, nowMs)

\* patterns.slice(0, 1): only the first pattern is kept
TrimPatternsToOne(patterns) == Take(patterns, 1)

\* patterns.slice(0, 50)
TrimPatterns(patterns) == Take(patterns, 50)

\* updateSuccessPattern(gpaiDir, input) at the instant nowMs: the profile
\* afterwards
updateSuccessPattern(stored, input, nowMs) ==
    LET method == toMethod(input.agents)
        signal == toSignal(input)
        patterns == loadSuccessPatterns(stored)
        existingIndex == FindPattern(patterns, << input.task, method >>)
        updated == UpdatedPattern(stored, input, nowMs)
        next ==
            IF existingIndex > 0
                THEN [ patterns EXCEPT ![existingIndex] = updated ]
                ELSE Append(patterns, updated)
    IN  IF input.task = "" \/ Len(method) = 0 \/ signal = NoSignal
            THEN stored
            ELSE [ stored EXCEPT
                     !.successPatterns = TrimPatterns(SortPatterns(next)) ]

\* normalizeDate(input): the instant of a timestamp, the clock's for a missing
\* or unparsable one
normalizeDate(input, nowMs) == IF input = NoTimestamp THEN nowMs ELSE input

\* [...rows].sort by normalizeDate(timestamp)
SortRows(rows, nowMs) ==
    LET range == { rows[i] : i \in DOMAIN rows }
    IN  StableSort(rows,
            [ a \in range, b \in range |->
                normalizeDate(a.timestamp, nowMs) - normalizeDate(b.timestamp, nowMs) ])

\* sortedRows.forEach of recomputePatternsFromHistory, from row i on; byKey
\* is the Map's values in insertion order
RECURSIVE RecomputeRows(_, _, _, _)
RecomputeRows(sortedRows, i, byKey, nowMs) ==
    IF i > Len(sortedRows) THEN byKey
    ELSE
        LET row == sortedRows[i]
            task == IF row.intent = "" THEN "analysis" ELSE row.intent
            method == toMethod(row.agents)
            signal == historySignal(row)
            timestamp == normalizeDate(row.timestamp, nowMs)
            position == FindPattern(byKey, << task, method >>)
        IN  IF Len(method) = 0 \/ signal = NoSignal
                THEN RecomputeRows(sortedRows, i + 1, byKey, nowMs)
            ELSE IF position = 0
                THEN RecomputeRows(sortedRows, i + 1,
                        Append(byKey, FirstPattern(task, method, signal, timestamp)),
                        nowMs)
            ELSE RecomputeRows(sortedRows, i + 1,
                    [ byKey EXCEPT ![position] =
                        BlendPattern(byKey[position], signal, timestamp) ],
                    nowMs)

\* recomputePatternsFromHistory(rows, policy), run when the clock reads nowMs
recomputePatternsFromHistory(rows, policy, nowMs) ==
    Take(SortPatterns(RecomputeRows(SortRows(rows, nowMs), 1, << >>, nowMs)),
         policy.maxPatterns)

\* maybeRecomputeSuccessPatterns(gpaiDir, { force, now }): the profile
\* afterwards and the result returned
maybeRecomputeSuccessPatterns(stored, rows, section, force, nowMs) ==
    LET counts == [ historyCount |-> Len(rows), ratedCount |-> countRatedRows(rows) ]
        policy == loadSuccessPatternRecomputePolicy(section)
        decision == decideRecompute(counts, stored.learningMeta, nowMs, force, policy)
    IN  IF ~decision.shouldRun
            THEN [ profile |-> stored,
                   result |-> [ triggered |-> FALSE, reason |-> decision.reason,
                                historyCount |-> counts.historyCount,
                                ratedCount |-> counts.ratedCount ] ]
            ELSE [ profile |->
                     [ stored EXCEPT
                         !.successPatterns =
                             recomputePatternsFromHistory(rows, policy, nowMs),
                         !.learningMeta =
                             writeRecomputeMeta(stored.learningMeta,
                                 [ runAt |-> nowMs,
                                   historyCount |-> counts.historyCount,
                                   ratedCount |-> counts.ratedCount,
                                   reason |-> decision.reason ]) ],
                   result |-> [ triggered |-> TRUE, reason |-> decision.reason,
                                historyCount |-> counts.historyCount,
                                ratedCount |-> counts.ratedCount ] ]

\* profile.json before any pattern was learned
NoProfile == [ successPatterns |-> << >>, learningMeta |-> NoRecomputeMeta ]

\* no hook has run yet: nothing was updated, no recompute was asked for
NoLearning ==
    [ op |-> "", task |-> "", rating |-> NoRating, ratings |-> 0,
      result |-> [ triggered |-> FALSE, reason |-> "none",
                   historyCount |-> 0, ratedCount |-> 0 ] ]

----------------------------------------------------------------------------
(* utils/profile.ts: the decay step of updateSuccessPattern on its own, for *)
(* two updates of the same stored pattern at two instants                   *)

\* no update of the probed pattern yet
NoProbe ==
    [ successRate |-> 0, lastUsed |-> 0, nowA |-> 0, nowB |-> 0,
      decayedA |-> 0, decayedB |-> 0 ]

----------------------------------------------------------------------------
(* hooks/AfterAgent.ts: the output contract.  A result is the sequence of  *)
(* its characters, each given by its class: " " for white space, "mark"    *)
(* for the required first visible character, "han" for a Chinese character *)
(* and "latin" for a letter of the Latin alphabet.                         *)

\* String.prototype.trimStart
RECURSIVE trimStart(_)
trimStart(text) ==
    IF Len(text) > 0 /\ text[1] = " " THEN trimStart(Tail(text)) ELSE text

\* String.prototype.startsWith
startsWith(text, prefix) ==
    /\ Len(text) >= Len(prefix)
    /\ \A i \in DOMAIN prefix : text[i] = prefix[i]

\* getOutputContractConfig with the first visible character of the default
\* configuration and the language of prompts.json
OutputContract(language) == [ language |-> language, firstVisibleChar |-> << "mark" >> ]

\* validateLanguageSignal(input, language)
validateLanguageSignal(input, language) ==
    IF language = "any" THEN TRUE
    ELSE IF language = "english" THEN \E i \in DOMAIN input : input[i] = "latin"
    ELSE \E i \in DOMAIN input : input[i] = "han"

\* validateOutputContract(result, contractConfig).ok
validateOutputContract(result, contractConfig) ==
    LET normalized == trimStart(result)
        requiredPrefix == contractConfig.firstVisibleChar
    IN  /\ startsWith(normalized, requiredPrefix)
        /\ validateLanguageSignal(
               SubSeq(normalized, Len(requiredPrefix) + 1, Len(normalized)),
               contractConfig.language)

\* input.success && !contractError
EffectiveSuccess(input, language) ==
    /\ input.success
    /\ validateOutputContract(input.result, OutputContract(language))

\* the entry handleAfterAgent appends; item is the work item finalized, or
\* NoTarget for none
AfterAgentEntry(input, items, target, status, nowMs) ==
    [ sessionId |-> IF input.sessionId # "" THEN input.sessionId
                    ELSE IF target # NoTarget THEN items[target].sessionId
                    ELSE "unknown-session",
      intent |-> IF target # NoTarget /\ items[target].intent # ""
                     THEN items[target].intent ELSE "analysis",
      agents |-> IF target # NoTarget THEN items[target].agents ELSE << >>,
      status |-> status,
      timestamp |-> nowMs,
      workItemId |-> target,
      rating |-> NoRating, feedback |-> "" ]

\* no task hook has run yet
NoHook ==
    [ name |-> "", sessionId |-> "", success |-> FALSE, contractOk |-> FALSE,
      rating |-> NoRating, workItemId |-> NoTarget, ratings |-> 0 ]

----------------------------------------------------------------------------
(* utils/memory.ts and hooks/PreCompress.ts: the files of the tiers as two   *)
(* processes see them.  appendJsonl is one appendFileSync; writeTierEntries *)
(* is one writeFileSync of the whole file.                                  *)

\* nothing is appended
appendJsonlNothing(file, value) == file

\* appendJsonl(filePath, value): fs.appendFileSync of one line
appendJsonl(file, value) == Append(file, value)

\* writeTierEntries(gpaiDir, tier, entries): the file afterwards
writeTierEntries(file, entries) == entries

\* no handlePreCompress call is under way, and no entry was saved beside one
NoRotation ==
    [ pc |-> "idle", nowMs |-> 0, tokenUsage |-> 0,
      hot |-> << >>, warm |-> << >>, cold |-> << >>,
      savedTier |-> "", savedAt |-> "" ]

----------------------------------------------------------------------------
(* A specification exercises one subsystem; the state of the others stays  *)
(* as it is after construction.                                            *)

memOwn == <<hot, warm, cold, now, nextId, report, runs>>

recOwn ==
    <<learningConfig, historyRows, ratedRows, learningMeta, recompute, options,
      recomputes>>

MemParked ==
    /\ hot = << >> /\ warm = << >> /\ cold = << >>
    /\ now = 1 /\ nextId = 0 /\ report = NoReport /\ runs = 0

\* config/learning.json without a successPatternRecompute section
NoSection ==
    [ historyDeltaThreshold |-> Absent, ratedDeltaThreshold |-> Absent,
      minIntervalMinutes |-> Absent, forceDeltaWithoutInterval |-> Absent,
      maxPatterns |-> Absent ]

RecParked ==
    /\ learningConfig = NoSection
    /\ historyRows = 0 /\ ratedRows = 0
    /\ learningMeta = NoRecomputeMeta
    /\ recompute = NoRecompute
    /\ options = NoOptions
    /\ recomputes = 0

\* a turn before handleBeforeAgent has read the role catalog
NoTurn ==
    [ baseAgents |-> << >>, knownAgentIds |-> << >>,
      scoring |-> [ rankedAgents |-> << >>, scoreByAgent |-> [ a \in Agents |-> 0 ] ],
      similarityBoost |-> [ a \in Agents |-> 0 ],
      composition |-> [ agents |-> << >>, injectedAgents |-> {},
                        replacedBaselineAgents |-> {} ],
      agentConstraints |-> NoConstraints,
      suggestedAgents |-> << >> ]

CmpParked == turn = NoTurn

\* no call of handleBeforeAgent yet
NoCall ==
    [ prompt |-> "", reply |-> "", throwsAt |-> "",
      intent |-> "", workItemCreated |-> FALSE, rejected |-> FALSE,
      output |-> [ modifiedPrompt |-> << >>, injectedContext |-> "",
                   suggestedAgents |-> << >>, systemInstructions |-> << >> ] ]

selOwn == <<call>>

workOwn == <<workItems, workClock, finalized>>

ledOwn == <<ledger, rated, writers>>

patOwn == <<profile, patNow, learned>>

decOwn == <<probe>>

lifeOwn == <<hook>>

rotOwn == <<rotation>>

hookOwn == <<selOwn, workOwn, ledOwn, patOwn, decOwn, lifeOwn, rotOwn>>

SelParked == call = NoCall

WorkParked == workItems = << >> /\ workClock = 1 /\ finalized = NoFinalize

\* no process is inside appendHistoryEntry
NoWriters == [ w \in Writers |-> [ pc |-> "idle", history |-> << >>, calls |-> 0 ] ]

LedParked == ledger = << >> /\ rated = NoRated /\ writers = NoWriters

PatParked == profile = NoProfile /\ patNow = 0 /\ learned = NoLearning

DecParked == probe = NoProbe

LifeParked == hook = NoHook

RotParked == rotation = NoRotation

HookParked ==
    SelParked /\ WorkParked /\ LedParked /\ PatParked /\ DecParked /\ LifeParked /\ RotParked

selRest == <<memOwn, recOwn, turn, workOwn, ledOwn, patOwn, decOwn, lifeOwn, rotOwn>>

SelRestParked ==
    MemParked /\ RecParked /\ CmpParked /\ WorkParked /\ LedParked /\ PatParked /\ DecParked
    /\ LifeParked /\ RotParked

workRest == <<memOwn, recOwn, turn, selOwn, ledOwn, patOwn, decOwn, lifeOwn, rotOwn>>

WorkRestParked ==
    MemParked /\ RecParked /\ CmpParked /\ SelParked /\ LedParked /\ PatParked /\ DecParked
    /\ LifeParked /\ RotParked

ledRest == <<memOwn, recOwn, turn, selOwn, workOwn, patOwn, decOwn, lifeOwn, rotOwn>>

LedRestParked ==
    MemParked /\ RecParked /\ CmpParked /\ SelParked /\ WorkParked /\ PatParked /\ DecParked
    /\ LifeParked /\ RotParked

patRest == <<memOwn, recOwn, turn, selOwn, workOwn, writers, decOwn, lifeOwn, rotOwn>>

PatRestParked ==
    /\ MemParked /\ RecParked /\ CmpParked /\ SelParked /\ WorkParked
    /\ writers = NoWriters /\ DecParked /\ LifeParked /\ RotParked

decRest == <<memOwn, recOwn, turn, selOwn, workOwn, ledOwn, patOwn, lifeOwn, rotOwn>>

DecRestParked ==
    /\ MemParked /\ RecParked /\ CmpParked /\ SelParked /\ WorkParked
    /\ LedParked /\ PatParked /\ LifeParked /\ RotParked

----------------------------------------------------------------------------
(* The tier rotation as a state machine *)

MemInit ==
    /\ \E h \in {0, hotKeepCount} : hot = Fill("hot", h)
    /\ \E w \in {0, warmMaxCount} : warm = Fill("warm", w)
    /\ \E c \in {0, coldMaxCount} : cold = Fill("cold", c)
    /\ now = 1
    /\ nextId = 0
    /\ report = NoReport
    /\ last = "init"
    /\ runs = 0
    /\ RecParked
    /\ CmpParked
    /\ HookParked

SaveInputs ==
    [ type : {"task_result"}, sessionId : {"s1"}, intent : {"analysis"},
      timestamp : {NoTimestamp, 0},
      content : { <<"c", 1>>, <<"c", 2>> } ]

\* saveMemoryEntry(gpaiDir, tier, entry): createMemoryEntry, then appendJsonl
SaveMemoryEntry ==
    /\ nextId < MaxSaves
    /\ \E tier \in {"hot", "warm"}, input \in SaveInputs :
         LET created == createMemoryEntry(tier, input, now, nextId)
         IN  /\ hot'  = IF tier = "hot"  THEN Append(hot, created)  ELSE hot
             /\ warm' = IF tier = "warm" THEN Append(warm, created) ELSE warm
    /\ nextId' = nextId + 1
    /\ last' = "save"
    /\ runs' = 0
    /\ report' = NoReport
    /\ UNCHANGED <<cold, now>>
    /\ UNCHANGED <<recOwn, turn, hookOwn>>

\* Instants the clock is read at after the initial one: at the first a row
\* written at 0 is exactly warmRetentionDays old, at the second it is older
TickTimes == { RetentionMs, RetentionMs + 1 }

\* the wall clock advances
Tick ==
    /\ \E t \in TickTimes :
         /\ t > now
         /\ now' = t
    /\ last' = "tick"
    /\ report' = NoReport
    /\ UNCHANGED <<hot, warm, cold, nextId, runs>>
    /\ UNCHANGED <<recOwn, turn, hookOwn>>

\* handlePreCompress(input)
HandlePreCompress ==
    /\ \E tokenUsage \in {10, 90} :
         \E r \in {Rotation(hot, warm, cold, now, tokenUsage, 100)} :
             /\ hot'  = r.hot
             /\ warm' = r.warm
             /\ cold' = r.cold
             /\ report' = [ hotToWarmCount  |-> r.metadata.hotToWarmCount,
                            warmToColdCount |-> r.metadata.warmToColdCount,
                            coldPrunedCount |-> r.metadata.coldPrunedCount,
                            finalHotCount   |-> r.metadata.finalHotCount,
                            finalWarmCount  |-> r.metadata.finalWarmCount,
                            finalColdCount  |-> r.metadata.finalColdCount,
                            preHot  |-> Len(hot),
                            preWarm |-> Len(warm),
                            preCold |-> Len(cold) ]
    /\ last' = "rotate"
    /\ runs' = IF runs < 2 THEN runs + 1 ELSE runs
    /\ UNCHANGED <<now, nextId>>
    /\ UNCHANGED <<recOwn, turn, hookOwn>>

MemNext == SaveMemoryEntry \/ Tick \/ HandlePreCompress

MemSpec == MemInit /\ [][MemNext]_memVars

----------------------------------------------------------------------------
(* The recompute trigger as a state machine: the ledger grows, rows get    *)
(* rated, the file may be rewritten shorter, and the trigger is consulted  *)
(* with an injected instant.                                               *)

\* successPatternRecompute sections of config/learning.json: none, the one of
\* the test suite, and one with the force delta at its lowest valid value and
\* the other two keys out of range
LearningSections ==
    { NoSection,
      [ NoSection EXCEPT !.historyDeltaThreshold = 5, !.ratedDeltaThreshold = 2,
                         !.minIntervalMinutes = 1 ],
      [ NoSection EXCEPT !.historyDeltaThreshold = 5, !.ratedDeltaThreshold = 0,
                         !.minIntervalMinutes = 2000,
                         !.forceDeltaWithoutInterval = 5 ] }

Policy == loadSuccessPatternRecomputePolicy(learningConfig)

\* rows appended between two consultations of the trigger
AppendSizes ==
    { Policy.historyDeltaThreshold - 1, Policy.historyDeltaThreshold } \ {0}

\* rows rated between two consultations of the trigger
RatingSizes == { Policy.ratedDeltaThreshold }

\* instants the trigger is consulted at
CheckTimes ==
    { 0, Policy.minIntervalMs - 1, Policy.minIntervalMs }

RecInit ==
    /\ learningConfig \in LearningSections
    /\ historyRows = 0
    /\ ratedRows = 0
    /\ learningMeta = NoRecomputeMeta
    /\ recompute = NoRecompute
    /\ options = NoOptions
    /\ recomputes = 0
    /\ last = "init"
    /\ MemParked
    /\ CmpParked
    /\ HookParked

\* appendHistoryEntry(gpaiDir, entry), as many times as the batch has rows
AppendHistoryEntry ==
    /\ \E k \in AppendSizes :
         /\ historyRows + k <= MaxLedgerRounds * Policy.historyDeltaThreshold
         /\ historyRows' = historyRows + k
    /\ last' = "append"
    /\ recompute' = NoRecompute
    /\ options' = NoOptions
    /\ UNCHANGED <<learningConfig, ratedRows, learningMeta, recomputes>>
    /\ UNCHANGED <<memOwn, turn, hookOwn>>

\* applyRatingToLatestHistory(gpaiDir, input) on rows that had no rating yet
ApplyRatingToLatestHistory ==
    /\ \E k \in RatingSizes :
         /\ ratedRows + k <= historyRows
         /\ ratedRows' = ratedRows + k
    /\ last' = "rate"
    /\ recompute' = NoRecompute
    /\ options' = NoOptions
    /\ UNCHANGED <<learningConfig, historyRows, learningMeta, recomputes>>
    /\ UNCHANGED <<memOwn, turn, hookOwn>>

\* data/history.json is replaced by a shorter file (decideRecompute's historyReset)
RewriteHistory ==
    /\ Policy.historyDeltaThreshold < historyRows
    /\ historyRows' = Policy.historyDeltaThreshold
    /\ ratedRows' = 0
    /\ last' = "rewrite"
    /\ recompute' = NoRecompute
    /\ options' = NoOptions
    /\ UNCHANGED <<learningConfig, learningMeta, recomputes>>
    /\ UNCHANGED <<memOwn, turn, hookOwn>>

\* maybeRecomputeSuccessPatterns(gpaiDir, { force, now })
MaybeRecomputeSuccessPatterns ==
    /\ \E force \in BOOLEAN, nowMs \in CheckTimes :
         \E decision \in { decideRecompute(
                              [ historyCount |-> historyRows, ratedCount |-> ratedRows ],
                              learningMeta, nowMs, force, Policy) } :
            /\ decision.shouldRun => recomputes < MaxRecomputes
            /\ recomputes' = IF decision.shouldRun THEN recomputes + 1 ELSE recomputes
            /\ options' = [ force |-> force, now |-> nowMs ]
            /\ recompute' =
                 [ triggered    |-> decision.shouldRun,
                   reason       |-> decision.reason,
                   historyCount |-> historyRows,
                   ratedCount   |-> ratedRows,
                   deltaHistory |-> decision.deltaHistory,
                   deltaRated   |-> decision.deltaRated,
                   runAt        |-> IF decision.shouldRun THEN nowMs ELSE NoRunAt ]
            /\ learningMeta' =
                 IF decision.shouldRun
                    THEN writeRecomputeMeta(learningMeta,
                            [ runAt |-> nowMs, historyCount |-> historyRows,
                              ratedCount |-> ratedRows, reason |-> decision.reason ])
                    ELSE learningMeta
    /\ last' = "check"
    /\ UNCHANGED <<learningConfig, historyRows, ratedRows>>
    /\ UNCHANGED <<memOwn, turn, hookOwn>>

RecNext ==
    \/ AppendHistoryEntry
    \/ ApplyRatingToLatestHistory
    \/ RewriteHistory
    \/ MaybeRecomputeSuccessPatterns

recVars == <<recOwn, last>>

RecSpec == RecInit /\ [][RecNext]_recVars

----------------------------------------------------------------------------
(* One turn of handleBeforeAgent: the role catalog is read, the candidates *)
(* are scored, the team is composed, the hard constraints are applied.     *)

\* config.agents.agents: six roles of the default catalog, in its order
AllKnown == << "engineer", "architect", "analyst", "devil", "researcher", "writer" >>

\* (baseline of the intent, known role ids): the analysis baseline and the
\* two-role default on the full catalog; the default with its first role, and
\* with both roles, missing from the catalog; a five-role baseline; an intent
\* mapped to no role; an empty catalog
RoleConfigs ==
    { << << "analyst", "engineer", "devil" >>, AllKnown >>,
      << << "engineer", "analyst" >>, AllKnown >>,
      << << "engineer", "analyst" >>,
         << "architect", "analyst", "devil", "researcher", "writer" >> >>,
      << << "engineer", "analyst" >>,
         << "architect", "devil", "researcher", "writer" >> >>,
      << << "engineer", "analyst", "devil", "writer", "researcher" >>, AllKnown >>,
      << << >>, AllKnown >>,
      << << "engineer", "analyst" >>, << >> >> }

\* scores a candidate can end with: none, between injectionMinScore and
\* replacementMinScore, below forceInjectionScore, and at it
ScoreLevels == { 0, 1500, 5000, 7500 }

\* similaritySignal.agentScoreBoost: no similar case, or one for every role
SimilarityBoosts == { [ a \in Agents |-> 0 ], [ a \in Agents |-> 800 ] }

\* the candidates of scoreAgents: the baseline, then every role with a signal
AllCandidates(baseAgents, score) ==
    uniqueAgents(baseAgents \o SelectSeq(AllKnown, LAMBDA agent : score[agent] # 0))

IncludeLists ==
    { << >>, << "researcher", "writer" >>,
      << "researcher", "writer", "devil", "analyst", "engineer" >> }

ExcludeLists(knownAgents) ==
    { << >>, << "researcher" >>, << "engineer", "analyst" >>, knownAgents }

\* parseAgentConstraints(prompt, knownAgents): only role ids of the catalog
\* are parsed, and only is set by a line that named at least one of them
AgentConstraints(knownAgents) ==
    { c \in [ include : IncludeLists, exclude : ExcludeLists(knownAgents),
              only : BOOLEAN ] :
        /\ \A i \in DOMAIN c.include : Includes(knownAgents, c.include[i])
        /\ \A i \in DOMAIN c.exclude : Includes(knownAgents, c.exclude[i])
        /\ c.only => Len(c.include) > 0 }

CmpInit ==
    /\ \E config \in RoleConfigs :
         turn = [ NoTurn EXCEPT !.baseAgents = config[1], !.knownAgentIds = config[2] ]
    /\ last = "init"
    /\ MemParked
    /\ RecParked
    /\ HookParked

ScoreAgents ==
    /\ last = "init"
    /\ \E score \in [ Agents -> ScoreLevels ], boost \in SimilarityBoosts :
         turn' = [ turn EXCEPT
                    !.scoring = [ rankedAgents |->
                                    RankAgents(score, turn.baseAgents,
                                        AllCandidates(turn.baseAgents, score)),
                                  scoreByAgent |-> score ],
                    !.similarityBoost = boost ]
    /\ last' = "scored"
    /\ UNCHANGED <<memOwn, recOwn, hookOwn>>

ComposeDynamicAgents ==
    /\ last = "scored"
    /\ turn' = [ turn EXCEPT !.composition =
                    composeDynamicAgents(turn.scoring, turn.baseAgents,
                        turn.knownAgentIds, turn.similarityBoost) ]
    /\ last' = "composed"
    /\ UNCHANGED <<memOwn, recOwn, hookOwn>>

ApplyAgentConstraints ==
    /\ last = "composed"
    /\ \E constraints \in AgentConstraints(turn.knownAgentIds) :
         turn' = [ turn EXCEPT
                    !.agentConstraints = constraints,
                    !.suggestedAgents =
                        applyAgentConstraints(turn.composition.agents, turn.baseAgents,
                            constraints, turn.knownAgentIds) ]
    /\ last' = "constrained"
    /\ UNCHANGED <<memOwn, recOwn, hookOwn>>

CmpNext == ScoreAgents \/ ComposeDynamicAgents \/ ApplyAgentConstraints

cmpVars == <<turn, last>>

CmpSpec == CmpInit /\ [][CmpNext]_cmpVars

----------------------------------------------------------------------------
(* handleBeforeAgent as a whole.  The body runs its steps in order inside  *)
(* one try block; a step that throws ends the body and the catch block     *)
(* builds the result.  The intent oracle (callGemini) is called inside     *)
(* analyzeIntent, which has a try block of its own.  Prompt formatting is  *)
(* outside the model: modifiedPrompt is the list of the parts it is made   *)
(* of, systemInstructions the list of the roles it names.                  *)

\* config.agents.intentToAgents, for the intents of the default
\* configuration whose roles all are in the modelled catalog
IntentToAgents ==
    [ analysis |-> << "analyst", "engineer", "devil" >>,
      research |-> << "researcher", "analyst", "writer", "devil" >> ]

\* mapping[intent] || ['engineer', 'analyst']
selectAgentsByIntent(intent) ==
    IF intent \in DOMAIN IntentToAgents
        THEN IntentToAgents[intent] ELSE << "engineer", "analyst" >>

\* callGemini threw, or its response was not JSON
OracleFailed == "<failed>"

\* what the oracle can do: a mapped label, an unmapped one, JSON without an
\* intent, a failure
OracleReplies == { "analysis", "research", "poetry", "", OracleFailed }

\* try { JSON.parse(await callGemini(..)).intent || 'analysis' } catch { 'analysis' }
analyzeIntent(reply) ==
    IF reply = OracleFailed \/ reply = "" THEN "analysis" ELSE reply

\* the calls of the body that can throw, in program order (availableAgentIds
\* catches its own failure); in analyzeIntent it is loadConfig that throws
BodySteps ==
    << "captureFeedbackSignal", "applyTelosUpdatesFromPrompt", "analyzeIntent",
       "parseAgentConstraints", "selectAgentsByIntent", "loadTelosProfile",
       "readMemoryEntries", "loadSuccessPatterns", "buildSimilaritySignal",
       "scoreAgents", "composeDynamicAgents", "applyAgentConstraints",
       "createWorkItem", "retrieveRelevantMemory", "buildPreferenceSummary",
       "buildModifiedPrompt" >>

\* no step throws
NoThrow == "<none>"

\* the body up to buildPreferenceSummary is guarded, the rest is not
InTryUpToSummary(step) ==
    /\ Includes(BodySteps, step)
    /\ IndexOf(BodySteps, step) <= IndexOf(BodySteps, "buildPreferenceSummary")

\* try { ... } encloses every step of the body
InTry(step) == Includes(BodySteps, step)

\* the catch block
CatchOutput(input) ==
    [ modifiedPrompt |-> << input.prompt >>,
      injectedContext |-> "",
      suggestedAgents |-> << "engineer", "analyst" >>,
      systemInstructions |-> << >> ]

\* Did the body complete this step?
Completed(step, throwsAt) ==
    throwsAt = NoThrow \/ IndexOf(BodySteps, step) < IndexOf(BodySteps, throwsAt)

\* handleBeforeAgent(input) in an environment: the oracle's reply, the step
\* that throws (if any), the scores and boosts the stores lead to, the
\* constraints the prompt carries and the memory retrieved for it
handleBeforeAgent(input, env) ==
    LET knownAgentIds == AllKnown
        intent == analyzeIntent(env.reply)
        baseAgents == selectAgentsByIntent(intent)
        scoring ==
            [ rankedAgents |->
                RankAgents(env.score, baseAgents, AllCandidates(baseAgents, env.score)),
              scoreByAgent |-> env.score ]
        composition ==
            composeDynamicAgents(scoring, baseAgents, knownAgentIds, env.boost)
        suggestedAgents ==
            applyAgentConstraints(composition.agents, baseAgents,
                env.constraints, knownAgentIds)
        thrown == env.throwsAt # NoThrow
    IN  [ prompt |-> input.prompt,
          reply |-> env.reply,
          throwsAt |-> env.throwsAt,
          intent |-> IF Completed("analyzeIntent", env.throwsAt) THEN intent ELSE "",
          workItemCreated |-> Completed("createWorkItem", env.throwsAt),
          rejected |-> thrown /\ ~InTry(env.throwsAt),
          output |->
            IF thrown
                THEN CatchOutput(input)
                ELSE [ modifiedPrompt |-> << input.prompt, intent >>,
                       injectedContext |-> env.relevantMemory,
                       suggestedAgents |-> suggestedAgents,
                       systemInstructions |-> suggestedAgents ] ]

Prompts == { "fix the build", "survey the field" }

\* scores of the turn: no signal at all, or history in favour of two roles
CallScores ==
    { [ a \in Agents |-> 0 ],
      [ a \in Agents |-> IF a \in { "researcher", "writer" } THEN 7500 ELSE 0 ] }

CallConstraints ==
    { NoConstraints,
      [ include |-> << >>, exclude |-> << "engineer", "analyst" >>, only |-> FALSE ] }

SelInit ==
    /\ call = NoCall
    /\ last = "init"
    /\ SelRestParked

HandleBeforeAgent ==
    /\ \E prompt \in Prompts,
          reply \in OracleReplies,
          throwsAt \in { BodySteps[i] : i \in DOMAIN BodySteps } \cup { NoThrow },
          score \in CallScores,
          constraints \in CallConstraints,
          relevantMemory \in { "", "earlier result" } :
         call' = handleBeforeAgent(
                    [ prompt |-> prompt ],
                    [ reply |-> reply, throwsAt |-> throwsAt, score |-> score,
                      boost |-> [ a \in Agents |-> 0 ],
                      constraints |-> constraints,
                      relevantMemory |-> relevantMemory ])
    /\ last' = "beforeAgent"
    /\ UNCHANGED selRest

SelNext == HandleBeforeAgent

selVars == <<call, last>>

SelSpec == SelInit /\ [][SelNext]_selVars

----------------------------------------------------------------------------
(* Work items as a state machine: the clock advances, handleBeforeAgent    *)
(* creates an item for a session, handleAfterAgent finalizes the latest.   *)

\* sessions that create work items
Sessions == { "s1", "s2" }

\* input.sessionId of finalizeLatestWorkItem; "" stands for none given
FinalizeSessions == Sessions \cup { "" }

WorkInit ==
    /\ workItems = << >>
    /\ workClock = 1
    /\ finalized = NoFinalize
    /\ last = "init"
    /\ WorkRestParked

WorkTick ==
    /\ workClock < MaxInstant
    /\ workClock' = workClock + 1
    /\ last' = "tick"
    /\ UNCHANGED <<workItems, finalized>>
    /\ UNCHANGED workRest

CreateWorkItem ==
    /\ \E sessionId \in Sessions :
         workItems' = createWorkItem(workItems,
                          [ sessionId |-> sessionId, intent |-> "analysis",
                            agents |-> << "analyst", "engineer" >> ],
                          workClock)
    /\ last' = "create"
    /\ UNCHANGED <<workClock, finalized>>
    /\ UNCHANGED workRest

FinalizeLatestWorkItem ==
    /\ \E sessionId \in FinalizeSessions, success \in BOOLEAN :
         \E r \in { finalizeLatestWorkItem(workItems,
                        [ sessionId |-> sessionId, success |-> success ], workClock) } :
            /\ workItems' = r.items
            /\ finalized' = [ sessionId |-> sessionId, success |-> success,
                              target |-> r.target ]
    /\ last' = "finalize"
    /\ UNCHANGED workClock
    /\ UNCHANGED workRest

WorkNext == WorkTick \/ CreateWorkItem \/ FinalizeLatestWorkItem

workVars == <<workOwn, last>>

WorkSpec == WorkInit /\ [][WorkNext]_workVars

----------------------------------------------------------------------------
(* The outcome ledger under one process: handleAfterAgent appends the      *)
(* entry of a finished task, a feedback utterance rates the latest one.    *)

\* the entry appended for the work item numbered n
HistoryEntry(sessionId, status, n) ==
    [ sessionId |-> sessionId, status |-> status, workItemId |-> n,
      rating |-> NoRating, feedback |-> "" ]

\* what a feedback utterance carries
RatingInputs ==
    { [ rating |-> 9, feedback |-> "great" ], [ rating |-> 3, feedback |-> "poor" ] }

LedInit ==
    /\ ledger = << >>
    /\ rated = NoRated
    /\ writers = NoWriters
    /\ last = "init"
    /\ LedRestParked

AppendEntry ==
    /\ Len(ledger) < MaxLedger
    /\ \E sessionId \in Sessions, status \in { "completed", "failed" } :
         ledger' = appendHistoryEntry(ledger,
                      HistoryEntry(sessionId, status, Len(ledger) + 1))
    /\ last' = "append"
    /\ UNCHANGED <<rated, writers>>
    /\ UNCHANGED ledRest

ApplyRating ==
    /\ \E sessionId \in FinalizeSessions, given \in RatingInputs :
         \E r \in { applyRatingToLatestHistory(ledger,
                        [ sessionId |-> sessionId, rating |-> given.rating,
                          feedback |-> given.feedback ]) } :
            /\ ledger' = r.history
            /\ rated' = [ sessionId |-> sessionId, rating |-> given.rating,
                          feedback |-> given.feedback, target |-> r.target ]
    /\ last' = "rate"
    /\ UNCHANGED writers
    /\ UNCHANGED ledRest

LedNext == AppendEntry \/ ApplyRating

ledVars == <<ledOwn, last>>

LedSpec == LedInit /\ [][LedNext]_ledVars

----------------------------------------------------------------------------
(* The outcome ledger under two processes.  appendHistoryEntry is three    *)
(* file-system steps: readFileSync of the whole file, then writeFileSync,  *)
(* which truncates the file and then writes the new content.  A process    *)
(* that reads between the truncation and the write of another finds no     *)
(* valid JSON: safeReadJson returns null and readHistoryEntries [].        *)

\* the session a process works for
SessionOf(w) == IF w = "w1" THEN "s1" ELSE "s2"

\* the n-th entry a process appends
EntryOf(w, n) == HistoryEntry(SessionOf(w), "completed", n)

\* Is the file truncated and not yet written again?
Truncated == \E w \in Writers : writers[w].pc = "writing"

\* readHistoryEntries(gpaiDir) by a process, at this moment
readHistoryEntries == IF Truncated THEN << >> ELSE ledger

RaceInit ==
    /\ ledger = << >>
    /\ rated = NoRated
    /\ writers = NoWriters
    /\ last = "init"
    /\ LedRestParked

\* const history = readHistoryEntries(gpaiDir); history.push(entry)
ReadHistory(w) ==
    /\ writers[w].pc = "idle"
    /\ writers[w].calls < MaxAppends
    /\ writers' = [ writers EXCEPT ![w] =
                      [ pc |-> "read",
                        history |-> appendHistoryEntry(readHistoryEntries,
                                        EntryOf(w, writers[w].calls + 1)),
                        calls |-> writers[w].calls + 1 ] ]
    /\ last' = "read"
    /\ UNCHANGED <<ledger, rated>>
    /\ UNCHANGED ledRest

\* writeFileSync opens the file with truncation
TruncateHistory(w) ==
    /\ writers[w].pc = "read"
    /\ writers' = [ writers EXCEPT ![w].pc = "writing" ]
    /\ last' = "truncate"
    /\ UNCHANGED <<ledger, rated>>
    /\ UNCHANGED ledRest

\* writeFileSync writes JSON.stringify(history) and returns
WriteHistory(w) ==
    /\ writers[w].pc = "writing"
    /\ ledger' = writers[w].history
    /\ writers' = [ writers EXCEPT ![w].pc = "idle", ![w].history = << >> ]
    /\ last' = "write"
    /\ UNCHANGED rated
    /\ UNCHANGED ledRest

RaceNext == \E w \in Writers : ReadHistory(w) \/ TruncateHistory(w) \/ WriteHistory(w)

RaceSpec == RaceInit /\ [][RaceNext]_ledVars

----------------------------------------------------------------------------
(* Learning as a state machine.  handleAfterAgent appends the outcome of a *)
(* task to the ledger and updates the pattern of its key; a feedback       *)
(* utterance with a rating rates the latest completed entry and updates    *)
(* the pattern of that entry's key; both then ask for a recompute.  The    *)
(* clock moves by whole days between hooks.                                *)

\* days the clock can advance
MaxDay == 2

\* tasks that end, each with an outcome row in the ledger
MaxOutcomes == 2

\* feedback utterances with a rating
MaxRatings == 2

\* intents of the tasks
Tasks == { "analysis", "research" }

\* the roles every task of the model was done with
Team == << "analyst", "engineer" >>

\* ratings detectRating finds in a prompt
RatingValues == { 3, 9 }

\* config/learning.json: a recompute every two new rows or every new rating,
\* at least a minute after the last one
PatLearningSection ==
    [ historyDeltaThreshold |-> 2, ratedDeltaThreshold |-> 1,
      minIntervalMinutes |-> 1, forceDeltaWithoutInterval |-> Absent,
      maxPatterns |-> Absent ]

\* the entry handleAfterAgent appends for a finalized work item
OutcomeEntry(task, success, nowMs, n) ==
    [ sessionId |-> "s1", intent |-> task, agents |-> Team,
      status |-> IF success THEN "completed" ELSE "failed",
      timestamp |-> nowMs, workItemId |-> n,
      rating |-> NoRating, feedback |-> "" ]

\* a hook has updated the ledger and has not asked for the recompute yet
InHook == last \in { "outcome", "feedback" }

PatInit ==
    /\ ledger = << >>
    /\ rated = NoRated
    /\ profile = NoProfile
    /\ patNow = 0
    /\ learned = NoLearning
    /\ last = "init"
    /\ PatRestParked

PatTick ==
    /\ ~InHook
    /\ patNow < MaxDay * DayMs
    /\ patNow' = patNow + DayMs
    /\ last' = "tick"
    /\ UNCHANGED <<ledger, rated, profile, learned>>
    /\ UNCHANGED patRest

\* handleAfterAgent: appendHistoryEntry, then updateSuccessPattern
HandleAfterAgent ==
    /\ ~InHook
    /\ Len(ledger) < MaxOutcomes
    /\ \E task \in Tasks, success \in BOOLEAN :
         /\ ledger' = appendHistoryEntry(ledger,
                          OutcomeEntry(task, success, patNow, Len(ledger) + 1))
         /\ profile' = updateSuccessPattern(profile,
                          [ task |-> task, agents |-> Team, rating |-> NoRating,
                            outcome |-> IF success THEN "success" ELSE "failure" ],
                          patNow)
         /\ learned' = [ learned EXCEPT !.op = "outcome", !.task = task,
                                        !.rating = NoRating ]
    /\ last' = "outcome"
    /\ UNCHANGED <<rated, patNow>>
    /\ UNCHANGED patRest

\* captureFeedbackSignal: applyRatingToLatestHistory, then
\* updateSuccessPattern when an entry with an intent and roles was linked
CaptureFeedbackSignal ==
    /\ ~InHook
    /\ learned.ratings < MaxRatings
    /\ \E rating \in RatingValues :
         \E linked \in { applyRatingToLatestHistory(ledger,
                            [ sessionId |-> "s1", rating |-> rating,
                              feedback |-> "feedback" ]) } :
            /\ ledger' = linked.history
            /\ rated' = [ sessionId |-> "s1", rating |-> rating,
                          feedback |-> "feedback", target |-> linked.target ]
            /\ profile' =
                 IF linked.target # 0
                    /\ ledger[linked.target].intent # ""
                    /\ Len(ledger[linked.target].agents) > 0
                     THEN updateSuccessPattern(profile,
                              [ task |-> ledger[linked.target].intent,
                                agents |-> ledger[linked.target].agents,
                                rating |-> rating, outcome |-> "" ],
                              patNow)
                     ELSE profile
            /\ learned' = [ learned EXCEPT
                              !.op = "feedback",
                              !.task = IF linked.target # 0
                                          THEN ledger[linked.target].intent ELSE "",
                              !.rating = rating,
                              !.ratings = @ + 1 ]
    /\ last' = "feedback"
    /\ UNCHANGED patNow
    /\ UNCHANGED patRest

\* maybeRecomputeSuccessPatterns(gpaiDir), as both hooks call it
MaybeRecompute ==
    /\ InHook
    /\ \E r \in { maybeRecomputeSuccessPatterns(profile, ledger,
                      PatLearningSection, FALSE, patNow) } :
         /\ profile' = r.profile
         /\ learned' = [ learned EXCEPT !.op = "recompute", !.result = r.result ]
    /\ last' = "recompute"
    /\ UNCHANGED <<ledger, rated, patNow>>
    /\ UNCHANGED patRest

PatNext == PatTick \/ HandleAfterAgent \/ CaptureFeedbackSignal \/ MaybeRecompute

patVars == <<ledger, rated, patOwn, last>>

PatSpec == PatInit /\ [][PatNext]_patVars

----------------------------------------------------------------------------
(* The decay step of updateSuccessPattern as a state machine: a stored     *)
(* pattern and two updates of it that differ in their instant only          *)

\* days the clock of the decay machine spans
MaxDecayDay == 3

\* successRate of the stored pattern, in thousandths, as loadSuccessPatterns
\* clamps it
PriorRates == { 0, 1, 250, 499, 500, 501, 900, 1000 }

\* instants of lastUsed and of the updates: whole days, so that an update can
\* come before lastUsed
DecayInstants == { day * DayMs : day \in 0 .. MaxDecayDay }

DecInit ==
    /\ \E successRate \in PriorRates, lastUsed \in DecayInstants :
         probe = [ NoProbe EXCEPT !.successRate = clampRate(successRate),
                                  !.lastUsed = lastUsed,
                                  !.nowA = lastUsed, !.nowB = lastUsed ]
    /\ last = "init"
    /\ DecRestParked

\* updateSuccessPattern on the stored pattern at nowA, and the same update at
\* nowB: daysSince, decay and decayedRate of each
DecayTwice ==
    /\ \E nowA \in DecayInstants, nowB \in DecayInstants :
         probe' = [ probe EXCEPT
                      !.nowA = nowA, !.nowB = nowB,
                      !.decayedA = DecayedRate(probe.successRate,
                                       getDaysBetween(probe.lastUsed, nowA)),
                      !.decayedB = DecayedRate(probe.successRate,
                                       getDaysBetween(probe.lastUsed, nowB)) ]
    /\ last' = "decay"
    /\ UNCHANGED decRest

DecNext == DecayTwice

decVars == <<probe, last>>

DecSpec == DecInit /\ [][DecNext]_<<decVars, decRest>>

----------------------------------------------------------------------------
(* recomputePatternsFromHistory run again and again on one ledger while the *)
(* clock moves on; the rows of the ledger may lack a usable timestamp       *)

\* rows of the ledger that is recomputed
MaxRows == 2

\* timestamps of the rows: missing or unparsable, or an instant
RowTimestamps == { NoTimestamp, 0, DayMs }

\* the rows a ledger file can hold at position n
LedgerRows(n) ==
    { OutcomeEntry(task, success, timestamp, n) :
        task \in Tasks, success \in BOOLEAN, timestamp \in RowTimestamps }

DetInit ==
    /\ \E n \in 0 .. MaxRows :
         ledger \in { rows \in [ 1 .. n -> LedgerRows(1) \cup LedgerRows(2) ] :
                        \A i \in 1 .. n : rows[i].workItemId = i }
    /\ rated = NoRated
    /\ profile = NoProfile
    /\ patNow = 0
    /\ learned = NoLearning
    /\ last = "init"
    /\ PatRestParked

\* recomputePatternsFromHistory(rows, policy) at an instant read off the clock
RecomputePatterns ==
    /\ \E nowMs \in { day * DayMs : day \in 0 .. MaxDay } :
         /\ nowMs >= patNow
         /\ patNow' = nowMs
         /\ profile' =
              [ profile EXCEPT !.successPatterns =
                  recomputePatternsFromHistory(ledger,
                      loadSuccessPatternRecomputePolicy(PatLearningSection), nowMs) ]
    /\ last' = "rebuild"
    /\ UNCHANGED <<ledger, rated, learned>>
    /\ UNCHANGED patRest

DetNext == RecomputePatterns

DetSpec == DetInit /\ [][DetNext]_patVars

----------------------------------------------------------------------------
(* The task lifecycle as a state machine: handleBeforeAgent takes a prompt, *)
(* records the rating it carries and creates the work item of the task;    *)
(* handleAfterAgent finalizes the latest work item, appends the outcome to *)
(* the ledger and updates the success patterns.  The intent and the team   *)
(* that handleBeforeAgent arrives at are drawn from the model's sets.      *)

\* tasks that reach handleAfterAgent
MaxTasks == 2

\* instants of the lifecycle's clock
MaxLifeInstant == 2

\* results of a task, by the classes of their characters
Results == { << " ", "mark", "han", "latin" >>, << "latin", "latin" >> }

\* the turns of the model: the session of the prompt and the intent that
\* analyzeIntent finds in it
Turns == { [ sessionId |-> "s1", intent |-> "research" ],
           [ sessionId |-> "s2", intent |-> "analysis" ] }

\* the rating detectRating finds in a feedback utterance
LifeRating == 10

\* output_contract.language of prompts.json
Languages == { "chinese", "any" }

\* the entry saveMemoryEntry is given by a hook
MemoryInput(type, sessionId, intent, content) ==
    [ type |-> type, sessionId |-> sessionId, intent |-> intent,
      timestamp |-> NoTimestamp, content |-> content ]

\* saveMemoryEntry(gpaiDir, tier, entry) for each entry of a list, in order:
\* the rows appended to the file of the tier; saves[k] = << tier, entry >>
SavedRows(saves, tier, nowMs, n) ==
    LET created == [ k \in DOMAIN saves |->
                       createMemoryEntry(saves[k][1], saves[k][2], nowMs, n + k - 1) ]
    IN  SelectSeq(created, LAMBDA e : e.tier = tier)

lifeRest ==
    <<cold, now, report, runs, recOwn, turn, selOwn, writers, decOwn, patNow, rotOwn>>

LifeInit ==
    /\ workItems = << >>
    /\ workClock = 1
    /\ finalized = NoFinalize
    /\ ledger = << >>
    /\ rated = NoRated
    /\ profile = NoProfile
    /\ learned = NoLearning
    /\ hook = NoHook
    /\ hot = << >> /\ warm = << >> /\ nextId = 0
    /\ last = "init"
    /\ cold = << >> /\ now = 1 /\ report = NoReport /\ runs = 0
    /\ RecParked /\ CmpParked /\ SelParked /\ DecParked /\ RotParked
    /\ writers = NoWriters /\ patNow = 0

LifeTick ==
    /\ workClock < MaxLifeInstant
    /\ workClock' = workClock + 1
    /\ last' = "tick"
    /\ UNCHANGED <<workItems, finalized, ledger, rated, profile, learned, hook,
                   hot, warm, nextId>>
    /\ UNCHANGED lifeRest

\* handleBeforeAgent for a prompt without a rating: the work item of the task
\* is created
BeforeAgentTask ==
    /\ \E prompt \in Turns :
         /\ workItems' = createWorkItem(workItems,
                             [ sessionId |-> prompt.sessionId,
                               intent |-> prompt.intent, agents |-> Team ],
                             workClock)
         /\ hook' = [ NoHook EXCEPT !.name = "beforeAgent",
                                    !.sessionId = prompt.sessionId,
                                    !.workItemId = workClock,
                                    !.ratings = hook.ratings ]
    /\ last' = "beforeAgent"
    /\ UNCHANGED <<workClock, finalized, ledger, rated, profile, learned,
                   hot, warm, nextId>>
    /\ UNCHANGED lifeRest

\* handleBeforeAgent for a prompt that carries a rating: captureFeedbackSignal
\* (applyRatingToLatestHistory, saveMemoryEntry, updateSuccessPattern,
\* maybeRecomputeSuccessPatterns), then the work item of the turn is created
BeforeAgentFeedback ==
    /\ hook.ratings < MaxRatings
    /\ \E prompt \in Turns, rating \in { LifeRating } :
        \E linked \in { applyRatingToLatestHistory(ledger,
                            [ sessionId |-> prompt.sessionId, rating |-> rating,
                              feedback |-> "feedback" ]) } :
        \E updates \in { linked.target # 0
                           /\ ledger[linked.target].intent # ""
                           /\ Len(ledger[linked.target].agents) > 0 } :
        \E recomputed \in { maybeRecomputeSuccessPatterns(
                               IF updates
                                   THEN updateSuccessPattern(profile,
                                            [ task |-> ledger[linked.target].intent,
                                              agents |-> ledger[linked.target].agents,
                                              rating |-> rating, outcome |-> "" ],
                                            workClock)
                                   ELSE profile,
                               linked.history, PatLearningSection, FALSE, workClock) } :
        \E saves \in { << << "warm", MemoryInput("feedback", prompt.sessionId,
                                IF linked.target # 0
                                    THEN ledger[linked.target].intent ELSE "",
                                << "rating", rating >>) >> >>
                       \o (IF recomputed.result.triggered
                             THEN << << "warm", MemoryInput("learning_event", prompt.sessionId,
                                         IF linked.target # 0
                                             THEN ledger[linked.target].intent ELSE "",
                                         << "recompute", recomputed.result.reason >>) >> >>
                             ELSE << >>) } :
           /\ ledger' = linked.history
           /\ rated' = [ sessionId |-> prompt.sessionId, rating |-> rating,
                         feedback |-> "feedback", target |-> linked.target ]
           /\ profile' = recomputed.profile
           /\ learned' = [ learned EXCEPT
                             !.op = "feedback",
                             !.task = IF linked.target # 0
                                         THEN ledger[linked.target].intent ELSE "",
                             !.rating = rating,
                             !.ratings = @ + 1,
                             !.result = recomputed.result ]
           /\ warm' = warm \o SavedRows(saves, "warm", workClock, nextId)
           /\ hot' = hot \o SavedRows(saves, "hot", workClock, nextId)
           /\ nextId' = nextId + Len(saves)
           /\ workItems' = createWorkItem(workItems,
                               [ sessionId |-> prompt.sessionId, intent |-> prompt.intent,
                                 agents |-> Team ],
                               workClock)
           /\ hook' = [ NoHook EXCEPT !.name = "feedback", !.sessionId = prompt.sessionId,
                                      !.rating = rating,
                                      !.workItemId = workClock,
                                      !.ratings = hook.ratings + 1 ]
    /\ last' = "feedback"
    /\ UNCHANGED <<workClock, finalized>>
    /\ UNCHANGED lifeRest

\* handleAfterAgent(input)
HandleAfterAgentHook ==
    /\ Len(ledger) < MaxTasks
    /\ \E sessionId \in Sessions, success \in BOOLEAN, result \in Results,
          language \in Languages :
        \E effectiveSuccess \in { EffectiveSuccess(
                                     [ success |-> success, result |-> result ],
                                     language) } :
        \E done \in { finalizeLatestWorkItem(workItems,
                          [ sessionId |-> sessionId, success |-> effectiveSuccess ],
                          workClock) } :
        \E entry \in { AfterAgentEntry([ sessionId |-> sessionId ], done.items,
                           done.target,
                           IF effectiveSuccess THEN "completed" ELSE "failed",
                           workClock) } :
        \E updates \in { done.target # NoTarget
                           /\ Len(done.items[done.target].agents) > 0
                           /\ done.items[done.target].intent # "" } :
        \E recomputed \in { maybeRecomputeSuccessPatterns(
                               IF updates
                                   THEN updateSuccessPattern(profile,
                                            [ task |-> done.items[done.target].intent,
                                              agents |-> done.items[done.target].agents,
                                              rating |-> NoRating,
                                              outcome |-> IF effectiveSuccess
                                                             THEN "success" ELSE "failure" ],
                                            workClock)
                                   ELSE profile,
                               appendHistoryEntry(ledger, entry),
                               PatLearningSection, FALSE, workClock) } :
        \E saves \in { (IF recomputed.result.triggered
                          THEN << << "warm", MemoryInput("learning_event", sessionId,
                                      entry.intent,
                                      << "recompute", recomputed.result.reason >>) >> >>
                          ELSE << >>)
                       \o << << "warm", MemoryInput("task_result", sessionId,
                                   entry.intent, << "result", entry.status >>) >> >>
                       \o (IF effectiveSuccess
                             THEN << << "hot", MemoryInput("implicit_signal", sessionId,
                                         entry.intent, << "completed" >>) >> >>
                           ELSE IF success
                             THEN << << "warm", MemoryInput("error", sessionId,
                                         entry.intent, << "contract" >>) >> >>
                           ELSE << >>) } :
           /\ workItems' = done.items
           /\ finalized' = [ sessionId |-> sessionId, success |-> effectiveSuccess,
                             target |-> done.target ]
           /\ ledger' = appendHistoryEntry(ledger, entry)
           /\ profile' = recomputed.profile
           /\ learned' = [ learned EXCEPT !.op = "outcome", !.task = entry.intent,
                                          !.rating = NoRating,
                                          !.result = recomputed.result ]
           /\ warm' = warm \o SavedRows(saves, "warm", workClock, nextId)
           /\ hot' = hot \o SavedRows(saves, "hot", workClock, nextId)
           /\ nextId' = nextId + Len(saves)
           /\ hook' = [ NoHook EXCEPT !.name = "afterAgent", !.sessionId = sessionId,
                                      !.success = success,
                                      !.contractOk =
                                          validateOutputContract(result,
                                              OutputContract(language)),
                                      !.workItemId = done.target,
                                      !.ratings = hook.ratings ]
    /\ last' = "afterAgent"
    /\ UNCHANGED <<workClock, rated>>
    /\ UNCHANGED lifeRest

LifeNext ==
    \/ LifeTick
    \/ BeforeAgentTask
    \/ BeforeAgentFeedback
    \/ HandleAfterAgentHook

lifeVars == <<memOwn, workOwn, ledger, rated, patOwn, lifeOwn, last>>

LifeSpec == LifeInit /\ [][LifeNext]_lifeVars

----------------------------------------------------------------------------
(* The cap of the stored patterns: task hooks on a profile that many hooks *)
(* have filled, under a configured maxPatterns.  A context stands for the   *)
(* part of a composite key that differs between tasks (intent, tool        *)
(* combination, project, complexity); every task is done by the same team.  *)

\* task hooks of a run
MaxCapHooks == 3

\* a successPatternRecompute section of config/learning.json with maxPatterns
\* at its lowest valid value
CappedSection ==
    [ NoSection EXCEPT !.historyDeltaThreshold = 10, !.maxPatterns = 10 ]

\* (section of config/learning.json, task hooks that ran before): below and
\* at the configured cap of 10, below and at the 50 of updateSuccessPattern
\* without a section
CapStarts ==
    { << CappedSection, 9 >>, << CappedSection, 10 >>,
      << NoSection, 49 >>, << NoSection, 50 >> }

\* the k-th context
CapTask(k) == "context" \o ToString(k)

\* handleAfterAgent on the ledger and the profile of state: appendHistoryEntry,
\* updateSuccessPattern, maybeRecomputeSuccessPatterns
HookOutcome(state, task, success, section, nowMs) ==
    LET rows == appendHistoryEntry(state.ledger,
                    OutcomeEntry(task, success, nowMs, Len(state.ledger) + 1))
        updated == updateSuccessPattern(state.profile,
                       [ task |-> task, agents |-> Team, rating |-> NoRating,
                         outcome |-> IF success THEN "success" ELSE "failure" ],
                       nowMs)
    IN  [ ledger |-> rows,
          profile |-> maybeRecomputeSuccessPatterns(updated, rows, section,
                          FALSE, nowMs).profile ]

\* the ledger and the profile after the hooks of the successful tasks k .. n,
\* each of a context of its own, at the instant 0 (the test on the result of
\* a hook always holds; it has the result computed before the next hook)
RECURSIVE AfterHooks(_, _, _, _)
AfterHooks(k, n, state, section) ==
    IF k > n THEN state
    ELSE LET next == HookOutcome(state, CapTask(k), TRUE, section, 0)
         IN  IF Len(next.ledger) = k /\ Len(next.profile.successPatterns) > 0
                 THEN AfterHooks(k + 1, n, next, section)
                 ELSE next

CapInit ==
    /\ \E config \in CapStarts :
        \E start \in { AfterHooks(1, config[2],
                           [ ledger |-> << >>, profile |-> NoProfile ], config[1]) } :
           /\ learningConfig = config[1]
           /\ ledger = start.ledger
           /\ profile = start.profile
    /\ historyRows = 0 /\ ratedRows = 0
    /\ learningMeta = NoRecomputeMeta
    /\ recompute = NoRecompute
    /\ options = NoOptions
    /\ recomputes = 0
    /\ rated = NoRated
    /\ patNow = 0
    /\ learned = NoLearning
    /\ last = "init"
    /\ MemParked /\ CmpParked /\ SelParked /\ WorkParked
    /\ writers = NoWriters /\ DecParked /\ LifeParked /\ RotParked

\* handleAfterAgent for a task of the oldest context or of a new one:
\* appendHistoryEntry, then updateSuccessPattern
CapOutcome ==
    /\ ~InHook
    /\ patNow < MaxCapHooks
    /\ \E k \in { 1, Len(ledger) + 1 }, success \in BOOLEAN :
         /\ ledger' = appendHistoryEntry(ledger,
                          OutcomeEntry(CapTask(k), success, patNow + 1, Len(ledger) + 1))
         /\ profile' = updateSuccessPattern(profile,
                          [ task |-> CapTask(k), agents |-> Team, rating |-> NoRating,
                            outcome |-> IF success THEN "success" ELSE "failure" ],
                          patNow + 1)
         /\ learned' = [ learned EXCEPT !.op = "outcome", !.task = CapTask(k),
                                        !.rating = NoRating ]
    /\ patNow' = patNow + 1
    /\ last' = "outcome"
    /\ UNCHANGED rated
    /\ UNCHANGED patRest

\* maybeRecomputeSuccessPatterns(gpaiDir), at the end of the hook
CapRecompute ==
    /\ InHook
    /\ \E r \in { maybeRecomputeSuccessPatterns(profile, ledger, learningConfig,
                      FALSE, patNow) } :
         /\ profile' = r.profile
         /\ learned' = [ learned EXCEPT !.op = "recompute", !.result = r.result ]
    /\ last' = "recompute"
    /\ UNCHANGED <<ledger, rated, patNow>>
    /\ UNCHANGED patRest

CapNext == CapOutcome \/ CapRecompute

capVars == <<learningConfig, ledger, rated, patOwn, last>>

CapSpec == CapInit /\ [][CapNext]_capVars

----------------------------------------------------------------------------
(* A save beside a rotation: one process runs handlePreCompress, which reads *)
(* the three tier files, computes, and rewrites the three files, while       *)
(* another process calls saveMemoryEntry.  Every file operation is a step.   *)

\* saveMemoryEntry calls of the other process
MaxRotSaves == 1

rotRest == <<recOwn, turn, selOwn, workOwn, ledOwn, patOwn, decOwn, lifeOwn>>

RotInit ==
    /\ \E h \in {0, hotKeepCount, hotKeepCount + 1} : hot = Fill("hot", h)
    /\ \E w \in {0, warmMaxCount} : warm = Fill("warm", w)
    /\ \E c \in {0, coldMaxCount} : cold = Fill("cold", c)
    /\ now \in { 1, RetentionMs + 1 }
    /\ nextId = 0
    /\ report = NoReport
    /\ runs = 0
    /\ rotation = NoRotation
    /\ last = "init"
    /\ RecParked /\ CmpParked /\ SelParked /\ WorkParked /\ LedParked
    /\ PatParked /\ DecParked /\ LifeParked

\* what handlePreCompress writes, from what it has read
RotationResult ==
    Rotation(rotation.hot, rotation.warm, rotation.cold, rotation.nowMs,
             rotation.tokenUsage, 100)

\* handlePreCompress(input): Date.now(), then loadTierEntries(gpaiDir, 'hot')
RotReadHot ==
    /\ rotation.pc = "idle"
    /\ \E tokenUsage \in {10, 90} :
         rotation' = [ rotation EXCEPT !.pc = "readHot", !.nowMs = now,
                                       !.tokenUsage = tokenUsage, !.hot = hot ]
    /\ last' = "readHot"
    /\ UNCHANGED <<hot, warm, cold, now, nextId, report, runs>>
    /\ UNCHANGED rotRest

\* loadTierEntries(gpaiDir, 'warm')
RotReadWarm ==
    /\ rotation.pc = "readHot"
    /\ rotation' = [ rotation EXCEPT !.pc = "readWarm", !.warm = warm ]
    /\ last' = "readWarm"
    /\ UNCHANGED <<hot, warm, cold, now, nextId, report, runs>>
    /\ UNCHANGED rotRest

\* loadTierEntries(gpaiDir, 'cold')
RotReadCold ==
    /\ rotation.pc = "readWarm"
    /\ rotation' = [ rotation EXCEPT !.pc = "readCold", !.cold = cold ]
    /\ last' = "readCold"
    /\ UNCHANGED <<hot, warm, cold, now, nextId, report, runs>>
    /\ UNCHANGED rotRest

\* writeTierEntries(gpaiDir, 'hot', nextHot)
RotWriteHot ==
    /\ rotation.pc = "readCold"
    /\ hot' = writeTierEntries(hot, RotationResult.hot)
    /\ rotation' = [ rotation EXCEPT !.pc = "wroteHot" ]
    /\ last' = "writeHot"
    /\ UNCHANGED <<warm, cold, now, nextId, report, runs>>
    /\ UNCHANGED rotRest

\* writeTierEntries(gpaiDir, 'warm', nextWarm)
RotWriteWarm ==
    /\ rotation.pc = "wroteHot"
    /\ warm' = writeTierEntries(warm, RotationResult.warm)
    /\ rotation' = [ rotation EXCEPT !.pc = "wroteWarm" ]
    /\ last' = "writeWarm"
    /\ UNCHANGED <<hot, cold, now, nextId, report, runs>>
    /\ UNCHANGED rotRest

\* writeTierEntries(gpaiDir, 'cold', nextCold)
RotWriteCold ==
    /\ rotation.pc = "wroteWarm"
    /\ cold' = writeTierEntries(cold, RotationResult.cold)
    /\ rotation' = [ rotation EXCEPT !.pc = "done" ]
    /\ last' = "writeCold"
    /\ UNCHANGED <<hot, warm, now, nextId, report, runs>>
    /\ UNCHANGED rotRest

\* saveMemoryEntry(gpaiDir, tier, entry) by the other process:
\* createMemoryEntry, then appendJsonl
RotSave ==
    /\ nextId < MaxRotSaves
    /\ \E tier \in {"hot", "warm"}, input \in SaveInputs :
         \E created \in { createMemoryEntry(tier, input, now, nextId) } :
            /\ hot'  = IF tier = "hot"  THEN appendJsonl(hot, created)  ELSE hot
            /\ warm' = IF tier = "warm" THEN appendJsonl(warm, created) ELSE warm
            /\ rotation' = [ rotation EXCEPT !.savedTier = tier,
                                             !.savedAt = rotation.pc ]
    /\ nextId' = nextId + 1
    /\ last' = "save"
    /\ UNCHANGED <<cold, now, report, runs>>
    /\ UNCHANGED rotRest

RotNext ==
    \/ RotReadHot \/ RotReadWarm \/ RotReadCold
    \/ RotWriteHot \/ RotWriteWarm \/ RotWriteCold
    \/ RotSave

rotVars == <<hot, warm, cold, nextId, rotOwn, last>>

RotSpec == RotInit /\ [][RotNext]_rotVars

----------------------------------------------------------------------------
(* Properties of the tier rotation, checked under MemSpec *)

\* Two rows are duplicates for the rotation: same type, session, intent,
\* timestamp and content (the id and the tier tag do not count)
SameIdentity(a, b) ==
    /\ a.type = b.type
    /\ a.sessionId = b.sessionId
    /\ a.intent = b.intent
    /\ a.timestamp = b.timestamp
    /\ a.content = b.content

PairwiseDistinct(entries) ==
    \A i, j \in DOMAIN entries : i # j => ~SameIdentity(entries[i], entries[j])

AgeMs(entry, nowMs) == nowMs - entry.timestamp

WithinRetention(entry, nowMs) == AgeMs(entry, nowMs) <= RetentionMs

\* the rows of a tier file without their stored tier tag
Untagged(file) == [ i \in DOMAIN file |-> [ file[i] EXCEPT !.tier = "any" ] ]

\* the rows the rotation takes out of hot: the oldest Len(hot) - hotKeepCount,
\* rows of equal timestamp in file order
OldestOf(file, n) == SubSeq(sortByTimestamp(file, "asc"), 1, n)

TotalEntries == Len(hot) + Len(warm) + Len(cold)

RotateStep == last' = "rotate"

NothingMoved(r) ==
    r.hotToWarmCount = 0 /\ r.warmToColdCount = 0 /\ r.coldPrunedCount = 0

\* C1 as stated: whatever the hotKeepCount + k rows of hot are, with warm and
\* cold empty one rotation leaves hotKeepCount rows in hot and k rows in warm
C1_AsStated ==
    ( /\ last = "rotate"
      /\ report.preWarm = 0
      /\ report.preCold = 0
      /\ report.preHot > hotKeepCount )
    => ( /\ Len(hot) = hotKeepCount
         /\ Len(warm) = report.preHot - hotKeepCount )

\* C1 (amended): with warm and cold empty and hot holding hotKeepCount + k
\* rows, k > 0, one rotation leaves hotKeepCount rows in hot and k rows in
\* warm, and nothing in cold, provided the k oldest rows are pairwise distinct
\* in identity, none of them is older than warmRetentionDays when the rotation
\* runs, and k <= warmMaxCount
C1_RotationConservation ==
    [][ ( /\ RotateStep
          /\ warm = <<>>
          /\ cold = <<>>
          /\ Len(hot) > hotKeepCount
          /\ Len(hot) - hotKeepCount <= warmMaxCount
          /\ PairwiseDistinct(OldestOf(hot, Len(hot) - hotKeepCount))
          /\ \A i \in 1..(Len(hot) - hotKeepCount) :
                WithinRetention(OldestOf(hot, Len(hot) - hotKeepCount)[i], now) )
        => ( /\ Len(hot') = hotKeepCount
             /\ Len(warm') = Len(hot) - hotKeepCount
             /\ cold' = <<>>
             /\ report'.hotToWarmCount = Len(hot) - hotKeepCount ) ]_memVars

C1_Witness ==
    /\ last = "rotate"
    /\ report.preWarm = 0
    /\ report.preCold = 0
    /\ report.preHot = hotKeepCount + 2
    /\ Len(hot) = hotKeepCount
    /\ Len(warm) = 2
    /\ cold = <<>>

\* C2 as stated: a rotation that follows a rotation with no append in between
\* leaves the rows of the three tiers as they are and reports nothing moved
\* (the stored tier tag, which the second run rewrites on the rows the first
\* run moved, is not counted as a change)
C2_AsStated ==
    [][ ( RotateStep /\ runs >= 1 )
        => ( /\ Untagged(hot') = Untagged(hot)
             /\ Untagged(warm') = Untagged(warm)
             /\ Untagged(cold') = Untagged(cold)
             /\ NothingMoved(report') ) ]_memVars

\* C2 (amended): a rotation that follows a rotation with no append in between
\* reports nothing moved and leaves the rows of the three tiers (their order,
\* ids, timestamps and contents) as they are, provided no row of warm has
\* become older than warmRetentionDays by the time of the second run
C2_RotationIdempotent ==
    [][ ( /\ RotateStep
          /\ runs >= 1
          /\ \A i \in DOMAIN warm : WithinRetention(warm[i], now) )
        => ( /\ Untagged(hot') = Untagged(hot)
             /\ Untagged(warm') = Untagged(warm)
             /\ Untagged(cold') = Untagged(cold)
             /\ NothingMoved(report') ) ]_memVars

C2_Witness ==
    /\ last = "rotate"
    /\ runs = 2
    /\ now > 1
    /\ report.preWarm > 0
    /\ report.preCold > 0
    /\ NothingMoved(report)
    /\ \E i \in DOMAIN warm : warm[i].id[1] = "m"

\* C3: after every rotation the cold tier holds at most coldMaxCount rows
C3_ColdBounded ==
    last = "rotate" => Len(cold) <= coldMaxCount

C3_Witness ==
    /\ last = "rotate"
    /\ report.coldPrunedCount > 2
    /\ report.preCold = coldMaxCount
    /\ Len(cold) = coldMaxCount

\* C4 as stated: the rows in the three tiers before a rotation are as many as
\* the rows after it plus the reported coldPrunedCount
C4_AsStated ==
    last = "rotate"
    => report.preHot + report.preWarm + report.preCold
         = TotalEntries + report.coldPrunedCount

\* C4 (amended): when no two rows of the three tiers have the same identity,
\* the rows before a rotation are as many as the rows after it plus the
\* reported coldPrunedCount; rows of equal identity that meet in warm or in
\* cold are merged into one and are not counted as pruned
C4_LossOnlyAtCold ==
    [][ ( RotateStep /\ PairwiseDistinct(hot \o warm \o cold) )
        => ( Len(hot) + Len(warm) + Len(cold)
               = Len(hot') + Len(warm') + Len(cold') + report'.coldPrunedCount ) ]_memVars

C4_Witness ==
    /\ last = "rotate"
    /\ report.hotToWarmCount > 0
    /\ report.warmToColdCount > 0
    /\ report.coldPrunedCount > 0
    /\ PairwiseDistinct(hot \o warm \o cold)
    /\ report.preHot + report.preWarm + report.preCold
         = TotalEntries + report.coldPrunedCount
----------------------------------------------------------------------------
(* Properties of the recompute trigger, checked under RecSpec *)

\* the step is a call of maybeRecomputeSuccessPatterns without the force flag
UnforcedCheck == last' = "check" /\ ~options'.force

\* the deltas the call sees, from the ledger and the stored meta before it
LedgerDeltaHistory == Max({0, historyRows - learningMeta.lastHistoryCount})

LedgerDeltaRated == Max({0, ratedRows - learningMeta.lastRatedCount})

CountReset ==
    \/ historyRows < learningMeta.lastHistoryCount
    \/ ratedRows < learningMeta.lastRatedCount

\* no recompute has run yet, or minInterval has passed at the instant of the call
CooldownSatisfied ==
    \/ learningMeta.lastRunAt = NoRunAt
    \/ options'.now >= learningMeta.lastRunAt + Policy.minIntervalMs

Returned(triggered, reason) ==
    /\ recompute'.triggered = triggered
    /\ recompute'.reason = reason

ThresholdBoundary ==
    /\ LedgerDeltaHistory = Policy.historyDeltaThreshold - 1
            => Returned(FALSE, "threshold-not-met")
    /\ LedgerDeltaHistory = Policy.historyDeltaThreshold
            => Returned(TRUE, "history-threshold")

C5_Case ==
    /\ UnforcedCheck
    /\ historyRows > 0
    /\ CooldownSatisfied
    /\ ~CountReset
    /\ LedgerDeltaRated < Policy.ratedDeltaThreshold

\* C5 as stated: with a non-empty ledger, no force flag, cooldown satisfied,
\* no count reset and deltaRated below its threshold, the decision is
\* threshold-not-met at deltaHistory = historyDeltaThreshold - 1 and
\* history-threshold at deltaHistory = historyDeltaThreshold, for any
\* configured threshold.  Violated when forceDeltaWithoutInterval is
\* configured equal to historyDeltaThreshold.
C5_AsStated == [][C5_Case => ThresholdBoundary]_recVars

\* C5 (recompute threshold boundary), amended: the boundary holds for every
\* configuration whose forceDeltaWithoutInterval is above its
\* historyDeltaThreshold.
C5_ThresholdBoundary ==
    [][C5_Case /\ Policy.forceDeltaWithoutInterval > Policy.historyDeltaThreshold
            => ThresholdBoundary]_recVars

\* an unforced call has returned history-threshold for a delta that is exactly
\* the configured threshold, with the rated delta below its threshold
C5_Witness ==
    /\ last = "check"
    /\ ~options.force
    /\ recompute.triggered
    /\ recompute.reason = "history-threshold"
    /\ recompute.deltaHistory = Policy.historyDeltaThreshold
    /\ recompute.deltaRated < Policy.ratedDeltaThreshold
    /\ learningConfig.historyDeltaThreshold = 5

CooldownGate ==
    /\ options'.now < learningMeta.lastRunAt + Policy.minIntervalMs
            => Returned(FALSE, "cooldown")
    /\ options'.now >= learningMeta.lastRunAt + Policy.minIntervalMs
            => Returned(TRUE, "rating-threshold")

C6_Case ==
    /\ UnforcedCheck
    /\ learningMeta.lastRunAt # NoRunAt
    /\ LedgerDeltaRated = Policy.ratedDeltaThreshold

\* C6 as stated: after a recompute at t, an unforced call with
\* deltaRated = ratedDeltaThreshold returns cooldown before t + minInterval and
\* rating-threshold from t + minInterval on.  Violated when the history delta
\* has reached a threshold of its own, or a count has dropped.
C6_AsStated == [][C6_Case => CooldownGate]_recVars

\* C6 (cooldown gating), amended: the same, for calls whose deltaHistory is
\* below historyDeltaThreshold and that see no count reset.
C6_CooldownGating ==
    [][C6_Case /\ LedgerDeltaHistory < Policy.historyDeltaThreshold /\ ~CountReset
            => CooldownGate]_recVars

\* an unforced call made inside the interval of an earlier recompute, with
\* deltaRated exactly at its threshold, has been refused
C6_Witness ==
    /\ last = "check"
    /\ ~options.force
    /\ ~recompute.triggered
    /\ recompute.reason = "cooldown"
    /\ recompute.deltaRated = Policy.ratedDeltaThreshold
    /\ recompute.deltaHistory < Policy.historyDeltaThreshold
    /\ learningMeta.lastRunAt # NoRunAt
    /\ options.now < learningMeta.lastRunAt + Policy.minIntervalMs

----------------------------------------------------------------------------
(* Properties of composition and hard constraints, checked under CmpSpec *)

Composed == last \in {"composed", "constrained"}

Constrained == last = "constrained"

TurnScore(agent) == turn.scoring.scoreByAgent[agent]

\* the roles of the intent's baseline that the catalog knows
KnownBaseRoles ==
    { agent \in Agents :
        /\ Includes(turn.baseAgents, agent)
        /\ Known(turn.knownAgentIds, agent) }

\* number of baseline roles in the composed list
ComposedBaseCount ==
    Cardinality({ i \in DOMAIN turn.composition.agents :
                    Includes(turn.baseAgents, turn.composition.agents[i]) })

\* C7 as stated: the known baseline role that scores above every other one is
\* in the list returned by composeDynamicAgents.  Violated: the role the
\* composition protects is the first of the baseline list.
C7_AsStated ==
    Composed =>
        \A agent \in KnownBaseRoles :
            (\A other \in KnownBaseRoles \ {agent} : TurnScore(agent) > TurnScore(other))
                => Includes(turn.composition.agents, agent)

FirstBaseRole == turn.baseAgents[1]

\* C7 (composition anchor safety), amended: the first role of the baseline
\* list, when the catalog knows it and fewer than maxAgents known baseline
\* roles score above it, is in the list returned by composeDynamicAgents.
C7_AnchorKept ==
    Composed /\ Len(turn.baseAgents) > 0 /\ FirstBaseRole \in KnownBaseRoles
             /\ Cardinality({ other \in KnownBaseRoles :
                                TurnScore(other) > TurnScore(FirstBaseRole) })
                    < AGENT_COMPOSITION_POLICY.maxAgents
        => Includes(turn.composition.agents, FirstBaseRole)

\* a composition that replaced a baseline role scoring above the first one
C7_Witness ==
    /\ last = "composed"
    /\ Len(turn.baseAgents) > 0
    /\ FirstBaseRole \in KnownBaseRoles
    /\ Includes(turn.composition.agents, FirstBaseRole)
    /\ \E agent \in turn.composition.replacedBaselineAgents :
            TurnScore(agent) > TurnScore(FirstBaseRole)

\* C8 as stated: for any scoring input, known-role set and non-empty baseline
\* list, the composed list holds at least minBaseAgents baseline roles.
\* Violated when the catalog knows none of the baseline roles.
C8_AsStated ==
    Composed /\ Len(turn.baseAgents) > 0
        => ComposedBaseCount >= AGENT_COMPOSITION_POLICY.minBaseAgents

\* C8 (minimum baseline representation), amended: when the catalog knows at
\* least one baseline role, the composed list holds at least minBaseAgents
\* baseline roles.
C8_MinBaseKept ==
    Composed /\ KnownBaseRoles # {}
        => ComposedBaseCount >= AGENT_COMPOSITION_POLICY.minBaseAgents

\* a full composition whose only baseline role is not the first of the list
\* (the catalog does not know that one) and scores below every other member,
\* while a known role that clears forceInjectionScore was left out
C8_Witness ==
    /\ last = "composed"
    /\ Len(turn.baseAgents) > 0
    /\ FirstBaseRole \notin KnownBaseRoles
    /\ Len(turn.composition.agents) = AGENT_COMPOSITION_POLICY.maxAgents
    /\ ComposedBaseCount = 1
    /\ \E i \in DOMAIN turn.composition.agents :
            /\ Includes(turn.baseAgents, turn.composition.agents[i])
            /\ \A j \in DOMAIN turn.composition.agents \ {i} :
                    TurnScore(turn.composition.agents[j])
                        >= TurnScore(turn.composition.agents[i])
                            + AGENT_COMPOSITION_POLICY.replacementDelta
    /\ \E agent \in Agents :
            /\ ~Includes(turn.baseAgents, agent)
            /\ Includes(turn.knownAgentIds, agent)
            /\ ~Includes(turn.composition.agents, agent)
            /\ TurnScore(agent) >= AGENT_COMPOSITION_POLICY.forceInjectionScore

\* C9 (exclude is absolute): no role of constraints.exclude is in the list
\* returned by applyAgentConstraints, whichever path produced it.
C9_ExcludeAbsolute ==
    Constrained =>
        \A i \in DOMAIN turn.suggestedAgents :
            ~Includes(turn.agentConstraints.exclude, turn.suggestedAgents[i])

\* every composed role was excluded and the result came from the baseline
\* fallback, whose list also holds an excluded role
C9_Witness ==
    /\ Constrained
    /\ Len(turn.composition.agents) > 0
    /\ \A i \in DOMAIN turn.composition.agents :
            Includes(turn.agentConstraints.exclude, turn.composition.agents[i])
    /\ Len(turn.agentConstraints.include) = 0
    /\ Len(turn.suggestedAgents) > 0
    /\ \E i \in DOMAIN turn.baseAgents :
            Includes(turn.agentConstraints.exclude, turn.baseAgents[i])

\* constraints.include without the roles of constraints.exclude, in order
IncludeMinusExclude ==
    SelectSeq(turn.agentConstraints.include,
        LAMBDA agent : \A i \in DOMAIN turn.agentConstraints.exclude :
                            turn.agentConstraints.exclude[i] # agent)

\* C10 (hard-only override precedence): with only set and a non-empty include
\* list after exclusion, applyAgentConstraints returns the first 4 roles of
\* that list, in order, whatever was composed; only = [researcher, writer]
\* with exclude = [researcher] gives exactly [writer].
C10_OnlyOverride ==
    Constrained /\ turn.agentConstraints.only /\ Len(IncludeMinusExclude) > 0
        => /\ turn.suggestedAgents =
                SubSeq(IncludeMinusExclude, 1,
                       IF Len(IncludeMinusExclude) < 4 THEN Len(IncludeMinusExclude) ELSE 4)
           /\ ( /\ turn.agentConstraints.include = << "researcher", "writer" >>
                /\ turn.agentConstraints.exclude = << "researcher" >> )
                => turn.suggestedAgents = << "writer" >>

\* only = [researcher, writer] with exclude = [researcher], and a composed
\* list of at least two roles without writer
C10_Witness ==
    /\ Constrained
    /\ turn.agentConstraints.only
    /\ turn.agentConstraints.include = << "researcher", "writer" >>
    /\ turn.agentConstraints.exclude = << "researcher" >>
    /\ ~Includes(turn.composition.agents, "writer")
    /\ Len(turn.composition.agents) >= 2
    /\ turn.suggestedAgents = << "writer" >>

----------------------------------------------------------------------------
(* Properties of handleBeforeAgent as a whole, checked under SelSpec *)

Called == last = "beforeAgent"

DefaultTeamReturned ==
    /\ call.output.suggestedAgents = << "engineer", "analyst" >>
    /\ call.output.injectedContext = ""

\* C11 as stated: handleBeforeAgent never rejects, and whenever a step fails,
\* the intent oracle included, it returns the default team
\* ['engineer', 'analyst'] with an empty injected context.
C11_AsStated ==
    Called =>
        /\ ~call.rejected
        /\ (call.throwsAt # NoThrow \/ call.reply = OracleFailed)
              => DefaultTeamReturned

\* C11: handleBeforeAgent never rejects; whenever a step of its body throws,
\* it returns the default team ['engineer', 'analyst'] with an empty injected
\* context and the prompt as it came; a failure of the intent oracle is not
\* such a throw: the intent is then 'analysis' and, no step throwing, the
\* call returns the team composed for that intent.
C11_NeverFailsCaller ==
    Called =>
        /\ ~call.rejected
        /\ call.throwsAt # NoThrow =>
              /\ DefaultTeamReturned
              /\ call.output.modifiedPrompt = << call.prompt >>
        /\ (call.reply = OracleFailed /\ call.throwsAt = NoThrow) =>
              /\ call.intent = "analysis"
              /\ call.output.modifiedPrompt = << call.prompt, "analysis" >>

\* a step after the work item was created threw, and the default came back
C11_Witness ==
    /\ Called
    /\ call.throwsAt = "retrieveRelevantMemory"
    /\ call.workItemCreated
    /\ DefaultTeamReturned

----------------------------------------------------------------------------
(* Properties of the work items, checked under WorkSpec *)

\* ids of the stored items that satisfy a status and session condition
InProgress(items) == { id \in DOMAIN items : items[id].status = "in-progress" }

OfSession(items, sessionId) == { id \in DOMAIN items : items[id].sessionId = sessionId }

\* the most recently created of a set of items (ids are instants of creation)
MostRecent(ids) == IF ids = {} THEN NoTarget ELSE Max(ids)

\* C12 as stated: a finalize call changes an item's status only from
\* 'in-progress' to 'completed' or 'failed', and never modifies an item that
\* already is 'completed' or 'failed'.
C12_AsStated ==
    [][ last' = "finalize" =>
          \A id \in DOMAIN workItems :
             /\ workItems[id].status # "in-progress" => workItems'[id] = workItems[id]
             /\ workItems'[id].status # workItems[id].status =>
                   /\ workItems[id].status = "in-progress"
                   /\ workItems'[id].status \in { "completed", "failed" } ]_workVars

\* C12: a finalize call modifies no item but its target and leaves the target
\* 'completed' or 'failed' (by input.success), never 'in-progress', with its
\* id, session and creation instant kept; an item already 'completed' or
\* 'failed' is modified by a finalize call only when the call names the item's
\* session, the session has no in-progress item and the item is the session's
\* most recently created one.  createWorkItem opens an 'in-progress' item and
\* modifies no item created at another instant.
C12_FinalizeTransitions ==
    [][ /\ last' = "finalize" =>
            /\ DOMAIN workItems' = DOMAIN workItems
            /\ \A id \in DOMAIN workItems :
                 /\ id # finalized'.target => workItems'[id] = workItems[id]
                 /\ id = finalized'.target =>
                      /\ workItems'[id].status =
                            IF finalized'.success THEN "completed" ELSE "failed"
                      /\ workItems'[id].updatedAt = workClock
                      /\ workItems'[id].id = workItems[id].id
                      /\ workItems'[id].sessionId = workItems[id].sessionId
                      /\ workItems'[id].createdAt = workItems[id].createdAt
                 /\ (workItems[id].status # "in-progress"
                        /\ workItems'[id] # workItems[id]) =>
                      /\ finalized'.sessionId = workItems[id].sessionId
                      /\ InProgress(workItems)
                            \cap OfSession(workItems, finalized'.sessionId) = {}
                      /\ id = MostRecent(OfSession(workItems, finalized'.sessionId))
        /\ last' = "create" =>
            /\ DOMAIN workItems' = DOMAIN workItems \cup { workClock }
            /\ workItems'[workClock].status = "in-progress"
            /\ \A id \in DOMAIN workItems \ { workClock } :
                  workItems'[id] = workItems[id] ]_workVars

\* a finalize call has just left an item failed, at a later instant than the
\* item's creation, while another item stays completed
C12_Witness ==
    /\ last = "finalize"
    /\ finalized.target # NoTarget
    /\ workItems[finalized.target].status = "failed"
    /\ workItems[finalized.target].updatedAt > workItems[finalized.target].createdAt
    /\ \E id \in DOMAIN workItems :
          /\ id # finalized.target
          /\ workItems[id].status = "completed"

\* C13 as stated: the target is the most recently created in-progress item of
\* the given session; when the session has none, the most recently created
\* in-progress item overall; never an item that is not in-progress.
C13_AsStated ==
    [][ last' = "finalize" =>
          finalized'.target =
             IF InProgress(workItems) \cap OfSession(workItems, finalized'.sessionId) # {}
                 THEN MostRecent(InProgress(workItems)
                          \cap OfSession(workItems, finalized'.sessionId))
                 ELSE MostRecent(InProgress(workItems)) ]_workVars

\* C13: with a session given, the target is the most recently created
\* in-progress item of that session; when the session has none, the most
\* recently created item of that session whatever its status; when the
\* session has no item, none.  With no session given, the target is the most
\* recently created in-progress item overall, or none.  The target is never
\* an item of another session than the one given.
C13_TargetSelection ==
    [][ last' = "finalize" =>
          /\ finalized'.target =
               IF finalized'.sessionId = ""
                   THEN MostRecent(InProgress(workItems))
               ELSE IF InProgress(workItems)
                          \cap OfSession(workItems, finalized'.sessionId) # {}
                   THEN MostRecent(InProgress(workItems)
                            \cap OfSession(workItems, finalized'.sessionId))
               ELSE MostRecent(OfSession(workItems, finalized'.sessionId))
          /\ (finalized'.target # NoTarget /\ finalized'.sessionId # "") =>
               workItems[finalized'.target].sessionId = finalized'.sessionId ]_workVars

\* a finalize call for s1 took s1's item although s2 has a later one that
\* still is in progress
C13_Witness ==
    /\ last = "finalize"
    /\ finalized.sessionId = "s1"
    /\ finalized.target # NoTarget
    /\ workItems[finalized.target].sessionId = "s1"
    /\ \E id \in DOMAIN workItems :
          /\ id > finalized.target
          /\ workItems[id].sessionId = "s2"
          /\ workItems[id].status = "in-progress"

----------------------------------------------------------------------------
(* Properties of the outcome ledger, checked under LedSpec *)

\* the completed rows of the ledger, of the session when one is given
CompletedRows(sessionId) ==
    { i \in DOMAIN ledger :
        /\ ledger[i].status = "completed"
        /\ sessionId # "" => ledger[i].sessionId = sessionId }

\* C14: applyRatingToLatestHistory sets rating and feedback to the given
\* values on the most recent completed entry (of the given session, when a
\* non-empty sessionId is given), rated already or not, keeps that entry's
\* other fields and every other entry; when there is no such entry it returns
\* null and leaves the ledger as it is.
C14_RatingAttachment ==
    [][ last' = "rate" =>
          IF CompletedRows(rated'.sessionId) = {}
              THEN rated'.target = 0 /\ ledger' = ledger
              ELSE /\ rated'.target = Max(CompletedRows(rated'.sessionId))
                   /\ Len(ledger') = Len(ledger)
                   /\ \A i \in DOMAIN ledger :
                        IF i = rated'.target
                            THEN ledger'[i] =
                                   [ ledger[i] EXCEPT !.rating = rated'.rating,
                                                      !.feedback = rated'.feedback ]
                            ELSE ledger'[i] = ledger[i] ]_ledVars

\* the latest completed entry of s1 carries the rating just given, an older
\* completed entry of s1 and a later entry of s2 do not
C14_Witness ==
    /\ last = "rate"
    /\ rated.sessionId = "s1"
    /\ rated.target = 2
    /\ Len(ledger) = 3
    /\ ledger[2].rating = rated.rating
    /\ ledger[1].sessionId = "s1" /\ ledger[1].status = "completed"
    /\ ledger[1].rating # rated.rating
    /\ ledger[3].sessionId = "s2" /\ ledger[3].status = "completed"
    /\ ledger[3].rating = NoRating

----------------------------------------------------------------------------
(* Properties of the outcome ledger under two processes, checked under RaceSpec *)

\* the appendHistoryEntry calls of a process that have returned
AppendsReturned(w) ==
    1 .. (IF writers[w].pc = "idle" THEN writers[w].calls ELSE writers[w].calls - 1)

\* C16: whatever the interleaving of the steps of two processes in
\* appendHistoryEntry, every entry whose append has returned is in the ledger
\* (no stored entry is lost, and after both calls both entries are present).
C16_AppendsSafe ==
    (\A w \in Writers : writers[w].pc # "writing") =>
        \A w \in Writers : \A n \in AppendsReturned(w) :
            \E i \in DOMAIN ledger : ledger[i] = EntryOf(w, n)

----------------------------------------------------------------------------
(* Properties of learning, checked under PatSpec *)

\* Is a pattern of this task stored?
Stored(patterns, task) == FindPattern(patterns, << task, Team >>) # 0

\* the stored pattern of a task
PatternOf(patterns, task) == patterns[FindPattern(patterns, << task, Team >>)]

\* a feedback utterance with rating 9 was linked to an entry whose pattern
\* was stored already
RatedNine ==
    /\ last' = "feedback"
    /\ rated'.rating = 9
    /\ rated'.target # 0
    /\ Stored(profile.successPatterns, learned'.task)

ByKey(patterns) ==
    { << buildPatternKey(patterns[i]), patterns[i].successRate, patterns[i].sampleSize >> :
        i \in DOMAIN patterns }

\* a recompute has just run
Recomputed == last' = "recompute" /\ learned'.result.triggered

\* C17 as stated: the patterns a recompute returns are those the incremental
\* updates of the task lifecycle (one per outcome, one per rating) have built
\* from no patterns; until the first recompute these are the stored patterns.
C17_AsStated ==
    [][ (Recomputed /\ profile.learningMeta.lastRunAt = NoRunAt) =>
          ByKey(profile'.successPatterns) = ByKey(profile.successPatterns) ]_patVars

\* updateSuccessPattern applied once to every row from row i on, with the
\* row's rating if it has one and its status otherwise, at the row's timestamp
RECURSIVE ReplayRows(_, _, _)
ReplayRows(sortedRows, i, stored) ==
    IF i > Len(sortedRows) THEN stored
    ELSE ReplayRows(sortedRows, i + 1,
            updateSuccessPattern(stored,
                [ task |-> sortedRows[i].intent, agents |-> sortedRows[i].agents,
                  rating |-> sortedRows[i].rating,
                  outcome |-> IF sortedRows[i].status = "completed"
                                 THEN "success" ELSE "failure" ],
                sortedRows[i].timestamp))

\* C17: the patterns a recompute returns (keys, successRate and sampleSize)
\* are those obtained from no patterns by applying updateSuccessPattern once
\* per ledger row, in the order of the rows' timestamps, at the row's
\* timestamp, with the row's rating when it has one and its status otherwise.
C17_RecomputeIsReplayPerRow ==
    [][ Recomputed =>
          ByKey(profile'.successPatterns)
              = ByKey(ReplayRows(SortRows(ledger, patNow), 1, NoProfile).successPatterns) ]_patVars

\* a recompute has run on a ledger with a rated row and a key of two rows
C17_Witness ==
    /\ last = "recompute"
    /\ learned.result.triggered
    /\ \E i \in DOMAIN ledger : ledger[i].rating # NoRating
    /\ \E i \in DOMAIN profile.successPatterns :
          profile.successPatterns[i].sampleSize = 2

\* C18 as stated: under updates and recomputes the sampleSize of a pattern
\* that stays stored never decreases.
C18_AsStated ==
    [][ \A task \in Tasks :
          (Stored(profile.successPatterns, task) /\ Stored(profile'.successPatterns, task))
              => PatternOf(profile'.successPatterns, task).sampleSize
                    >= PatternOf(profile.successPatterns, task).sampleSize ]_patVars

\* the ledger rows of a task
RowsOf(task) == { i \in DOMAIN ledger : ledger[i].intent = task }

\* C18: under updateSuccessPattern the sampleSize of a stored pattern never
\* decreases: the pattern of the updated key gains exactly one sample (or is
\* created with one), the others keep theirs.  A recompute that runs sets
\* every sampleSize to the number of ledger rows of the key, whatever it was.
C18_SampleSizeUnderUpdates ==
    [][ /\ last' \in { "outcome", "feedback" } =>
            \A task \in Tasks :
               LET updated == task = learned'.task
               IN  IF Stored(profile.successPatterns, task)
                       THEN /\ Stored(profile'.successPatterns, task)
                            /\ PatternOf(profile'.successPatterns, task).sampleSize
                                 = PatternOf(profile.successPatterns, task).sampleSize
                                     + (IF updated THEN 1 ELSE 0)
                       ELSE IF updated
                           THEN /\ Stored(profile'.successPatterns, task)
                                /\ PatternOf(profile'.successPatterns, task).sampleSize = 1
                           ELSE ~Stored(profile'.successPatterns, task)
        /\ Recomputed =>
            \A task \in Tasks :
               IF RowsOf(task) = {}
                   THEN ~Stored(profile'.successPatterns, task)
                   ELSE /\ Stored(profile'.successPatterns, task)
                        /\ PatternOf(profile'.successPatterns, task).sampleSize
                             = Cardinality(RowsOf(task)) ]_patVars

\* a recompute has run on a ledger of one rated row: the pattern that the
\* outcome and the rating had brought to two samples has one
C18_Witness ==
    /\ last = "recompute"
    /\ learned.result.triggered
    /\ Len(ledger) = 1
    /\ ledger[1].rating # NoRating
    /\ Len(profile.successPatterns) = 1
    /\ profile.successPatterns[1].sampleSize = 1

\* C20: updateSuccessPattern and a maybeRecomputeSuccessPatterns call that
\* does not run leave the recompute meta as it is; a recompute that runs sets
\* lastRunAt to the current time, lastHistoryCount to the ledger's size,
\* lastRatedCount to the number of rated rows and lastReason to the
\* decision's reason.
C20_MetaWrittenByRecompute ==
    [][ /\ last' \in { "outcome", "feedback" } =>
            profile'.learningMeta = profile.learningMeta
        /\ (last' = "recompute" /\ ~learned'.result.triggered) =>
            profile'.learningMeta = profile.learningMeta
        /\ Recomputed =>
            profile'.learningMeta =
                [ lastRunAt |-> patNow,
                  lastHistoryCount |-> Len(ledger),
                  lastRatedCount |->
                      Cardinality({ i \in DOMAIN ledger : ledger[i].rating # NoRating }),
                  lastReason |-> learned'.result.reason ] ]_patVars

\* a rating has triggered a recompute a day after the last one
C20_Witness ==
    /\ last = "recompute"
    /\ learned.result.triggered
    /\ profile.learningMeta.lastReason = "rating-threshold"
    /\ profile.learningMeta.lastRunAt = DayMs
    /\ profile.learningMeta.lastHistoryCount = 2
    /\ profile.learningMeta.lastRatedCount = 1

----------------------------------------------------------------------------
(* Properties of the decay step, checked under DecSpec *)

\* distance of a decayed rate (units of 10^-7) from 0.5
FromNeutral(decayedRate) ==
    IF decayedRate >= 5000000 THEN decayedRate - 5000000 ELSE 5000000 - decayedRate

\* two updates of the pattern were computed, the second with more time elapsed
\* since lastUsed
MoreElapsed == last = "decay" /\ probe.nowB - probe.lastUsed > probe.nowA - probe.lastUsed

----------------------------------------------------------------------------
(* The order of decideRecompute's rules, checked under RecSpec *)

\* a maybeRecomputeSuccessPatterns call is being made
AnyCheck == last' = "check"

\* the rated rows the ledger has gained since the last recorded run
GainedRated == IF ratedRows > learningMeta.lastRatedCount
                   THEN ratedRows - learningMeta.lastRatedCount ELSE 0

\* the rows the ledger has gained since the last recorded run
GainedHistory == IF historyRows > learningMeta.lastHistoryCount
                     THEN historyRows - learningMeta.lastHistoryCount ELSE 0

\* a run was recorded and less than the minimum interval separates the call
\* from it
CooldownRunning ==
    /\ learningMeta.lastRunAt # NoRunAt
    /\ (IF options'.now > learningMeta.lastRunAt
           THEN options'.now - learningMeta.lastRunAt ELSE 0) < Policy.minIntervalMs

\* the first rule that applies, in the order of the claim: << run, reason >>
FirstRule ==
    CASE historyRows = 0 -> << FALSE, "empty-history" >>
      [] OTHER ->
    CASE options'.force -> << TRUE, "force" >>
      [] OTHER ->
    CASE GainedHistory >= Policy.forceDeltaWithoutInterval
            -> << TRUE, "history-force-threshold" >>
      [] OTHER ->
    CASE GainedRated >= 3 * Policy.ratedDeltaThreshold
            -> << TRUE, "rating-force-threshold" >>
      [] OTHER ->
    CASE CooldownRunning -> << FALSE, "cooldown" >>
      [] OTHER ->
    CASE historyRows < learningMeta.lastHistoryCount
           \/ ratedRows < learningMeta.lastRatedCount
            -> << TRUE, "history-reset" >>
      [] OTHER ->
    CASE GainedHistory >= Policy.historyDeltaThreshold
            -> << TRUE, "history-threshold" >>
      [] OTHER ->
    CASE GainedRated >= Policy.ratedDeltaThreshold
            -> << TRUE, "rating-threshold" >>
      [] OTHER -> << FALSE, "threshold-not-met" >>

\* C21: the decision of every maybeRecomputeSuccessPatterns call is the first
\* rule that applies, in the order empty-history, force,
\* history-force-threshold, rating-force-threshold, cooldown, history-reset,
\* history-threshold, rating-threshold, threshold-not-met.
C21_DecisionPrecedence ==
    [][ AnyCheck =>
          << recompute'.triggered, recompute'.reason >> = FirstRule ]_recVars

\* a second recompute has run at the instant 0 on the force threshold of the
\* history delta: no interval had elapsed since the first one
C21_Witness ==
    /\ last = "check"
    /\ ~options.force
    /\ options.now = 0
    /\ recomputes = 2
    /\ recompute.triggered
    /\ recompute.reason = "history-force-threshold"

----------------------------------------------------------------------------
(* Properties of the rebuild, checked under DetSpec *)

\* C22: two runs of recomputePatternsFromHistory on the same ledger and
\* policy, made at different wall-clock times, return identical pattern lists
\* (keys, successRate, sampleSize, lastUsed and order), also when rows have a
\* missing or unparsable timestamp.
C22_RecomputeDeterministic ==
    [][ (last = "rebuild" /\ last' = "rebuild" /\ ledger' = ledger)
            => profile'.successPatterns = profile.successPatterns ]_patVars

----------------------------------------------------------------------------
(* Properties of the task lifecycle, checked under LifeSpec *)

\* the in-progress work items that handleBeforeAgent created for a session
OpenItems(sessionId) ==
    { id \in DOMAIN workItems :
        /\ workItems[id].status = "in-progress"
        /\ workItems[id].sessionId = sessionId }

\* the status a task hook reports for an outcome
ReportedStatus(success) == IF success THEN "completed" ELSE "failed"

\* C23: after handleBeforeAgent created a work item for a session,
\* handleAfterAgent called for that session with success = true leaves the
\* item completed and appends exactly one history entry, completed and with
\* the item's intent; with success = false it leaves the item failed and
\* appends exactly one history entry, failed.
C23_FinalizationRecordsOutcome ==
    [][ (last' = "afterAgent" /\ OpenItems(hook'.sessionId) # {})
          => /\ \A id \in OpenItems(hook'.sessionId) :
                  (\A other \in OpenItems(hook'.sessionId) : other <= id)
                      => workItems'[id].status = ReportedStatus(hook'.success)
             /\ Len(ledger') = Len(ledger) + 1
             /\ SubSeq(ledger', 1, Len(ledger)) = ledger
             /\ ledger'[Len(ledger')].status = ReportedStatus(hook'.success)
             /\ \A id \in OpenItems(hook'.sessionId) :
                  (\A other \in OpenItems(hook'.sessionId) : other <= id)
                      => ledger'[Len(ledger')].intent = workItems[id].intent
      ]_lifeVars


\* a task with a non-empty role list was reported complete by handleAfterAgent
\* and the user rates it next, in the same session
RatedAfterCompletion ==
    /\ last = "afterAgent"
    /\ hook.success
    /\ hook.workItemId # NoTarget
    /\ Len(workItems[hook.workItemId].agents) > 0
    /\ last' = "feedback"
    /\ hook'.sessionId = hook.sessionId

\* C27: when a task with a non-empty role list completes and the user then
\* rates it in the same session, the rating update uses the composite key of
\* the completion update: afterwards one pattern of that key is stored, with
\* sampleSize >= 2.
C27_RatingFeedsSamePattern ==
    [][ RatedAfterCompletion
          => LET key == << workItems[hook.workItemId].intent,
                           toMethod(workItems[hook.workItemId].agents) >>
                 patterns == profile'.successPatterns
             IN  /\ FindPattern(patterns, key) > 0
                 /\ patterns[FindPattern(patterns, key)].sampleSize >= 2
      ]_lifeVars


\* the identity fields of a history entry
EntryIdentity(entry) == << entry.sessionId, entry.timestamp, entry.agents >>

\* C24: over the appendHistoryEntry and applyRatingToLatestHistory calls of a
\* single writer the ledger never gets shorter, every entry keeps its
\* position and its sessionId, timestamp and agents, and appendHistoryEntry
\* adds exactly one entry, at the end.
C24_LedgerDurable ==
    [][ /\ Len(ledger') >= Len(ledger)
        /\ \A i \in DOMAIN ledger :
             EntryIdentity(ledger'[i]) = EntryIdentity(ledger[i])
        /\ last' = "afterAgent"
             => /\ Len(ledger') = Len(ledger) + 1
                /\ SubSeq(ledger', 1, Len(ledger)) = ledger
      ]_lifeVars

\* a rating was attached to an entry of a ledger that two appends have built
C24_Witness ==
    /\ last = "feedback"
    /\ rated.target # 0
    /\ Len(ledger) = 2
    /\ ledger[1].sessionId # ledger[2].sessionId
    /\ ledger[rated.target].rating = LifeRating


\* the roles of the returned list that are not of the intent's baseline
ComposedNonBase ==
    { turn.composition.agents[i] : i \in DOMAIN turn.composition.agents }
        \ { turn.baseAgents[i] : i \in DOMAIN turn.baseAgents }

\* the injection gate of a role, on the turn's scores and similarity boosts
ClearsGate(agent) ==
    /\ TurnScore(agent) >= AGENT_COMPOSITION_POLICY.injectionMinScore
    /\ \/ turn.similarityBoost[agent] >= AGENT_COMPOSITION_POLICY.minSimilarityBoost
       \/ TurnScore(agent) >= AGENT_COMPOSITION_POLICY.forceInjectionScore

\* C25 as stated: every non-baseline role in the list returned by
\* composeDynamicAgents has a score >= injectionMinScore and either a
\* similarity boost >= minSimilarityBoost or a score >= forceInjectionScore.
\* Violated when the selection is empty and the ranked list is returned.
C25_AsStated ==
    Composed => \A agent \in ComposedNonBase : ClearsGate(agent)

\* C25 (injection gate), amended: when the role catalog knows a role of the
\* baseline, or a candidate was injected, every non-baseline role of the
\* returned list clears the gate.
C25_InjectionGate ==
    Composed /\ (KnownBaseRoles # {} \/ turn.composition.injectedAgents # {})
        => \A agent \in ComposedNonBase : ClearsGate(agent)

\* a composition that injected a role on its similarity boost, below
\* forceInjectionScore, next to a known baseline role
C25_Witness ==
    /\ last = "composed"
    /\ KnownBaseRoles # {}
    /\ \E agent \in ComposedNonBase :
            /\ agent \in turn.composition.injectedAgents
            /\ TurnScore(agent) < AGENT_COMPOSITION_POLICY.forceInjectionScore
            /\ turn.similarityBoost[agent] >= AGENT_COMPOSITION_POLICY.minSimilarityBoost

----------------------------------------------------------------------------
(* Properties of the pattern cap, checked under CapSpec *)

\* C26: after any sequence of incremental updates and triggered recomputes,
\* the number of persisted patterns never exceeds the configured maxPatterns
\* (read at the end of every hook, after its update and its recompute check).
C26_PatternsCapped ==
    ~InHook => Len(profile.successPatterns) <= Policy.maxPatterns


\* the input of the updateSuccessPattern call of the hook that just ran
OutcomeInput ==
    [ task |-> learned'.task, agents |-> Team, rating |-> NoRating,
      outcome |-> IF ledger'[Len(ledger')].status = "completed"
                      THEN "success" ELSE "failure" ]

\* the pattern that the call returned is in the list that the call persisted,
\* with its key, its successRate and its sampleSize
ReturnedIsPersisted ==
    LET returned == UpdatedPattern(profile, OutcomeInput, patNow')
    IN  \E i \in DOMAIN profile'.successPatterns :
            /\ buildPatternKey(profile'.successPatterns[i]) = buildPatternKey(returned)
            /\ profile'.successPatterns[i].successRate = returned.successRate
            /\ profile'.successPatterns[i].sampleSize = returned.sampleSize

\* C29 as stated: whenever updateSuccessPattern returns a pattern, the
\* persisted list holds a pattern with that key, successRate and sampleSize
\* right after the call, also when 50 patterns with a higher successRate are
\* stored.  Violated by the pattern of a new key that sorts behind 50 others.
C29_AsStated ==
    [][ last' = "outcome" => ReturnedIsPersisted ]_capVars

\* C29 (an update and its own truncation), amended: the returned pattern is
\* persisted when its key was stored already, among at most 50 patterns, or
\* fewer than 50 patterns were stored.
C29_UpdateKept ==
    [][ (/\ last' = "outcome"
         /\ \/ /\ Stored(profile.successPatterns, learned'.task)
               /\ Len(profile.successPatterns) <= 50
            \/ Len(profile.successPatterns) < 50)
          => ReturnedIsPersisted ]_capVars

\* the update of a stored key among 50 patterns, which sorts last afterwards
C29_Witness ==
    /\ last = "outcome"
    /\ Len(profile.successPatterns) = 50
    /\ FindPattern(profile.successPatterns, << learned.task, Team >>) = 50
    /\ profile.successPatterns[50].sampleSize >= 2
    /\ \A i \in 1 .. 49 :
         profile.successPatterns[i].successRate > profile.successPatterns[50].successRate


\* a recompute has run and the ledger has the counts that the run recorded,
\* as it has while it is unchanged
UnchangedSinceRun ==
    /\ learningMeta.lastRunAt # NoRunAt
    /\ historyRows = learningMeta.lastHistoryCount
    /\ ratedRows = learningMeta.lastRatedCount

\* C28: after maybeRecomputeSuccessPatterns has triggered a recompute, every
\* later non-forced call made while the ledger is unchanged returns
\* triggered = false: cooldown before the interval has elapsed,
\* threshold-not-met after, for every policy that passes validation.
C28_NoBackToBack ==
    [][ (UnforcedCheck /\ UnchangedSinceRun)
          => Returned(FALSE, IF CooldownRunning THEN "cooldown"
                                               ELSE "threshold-not-met") ]_recVars

\* a second call after a recompute, on the same ledger and after the
\* interval, was answered threshold-not-met
C28_Witness ==
    /\ last = "check"
    /\ ~options.force
    /\ ~recompute.triggered
    /\ recompute.reason = "threshold-not-met"
    /\ learningMeta.lastRunAt # NoRunAt
    /\ historyRows = learningMeta.lastHistoryCount
    /\ ratedRows = learningMeta.lastRatedCount
    /\ options.now >= learningMeta.lastRunAt + Policy.minIntervalMs

----------------------------------------------------------------------------
(* Properties of a save beside a rotation, checked under RotSpec *)

\* the entry of the last saveMemoryEntry call is in the file
HoldsSaved(file) == \E i \in DOMAIN file : file[i].id = generateMemoryId(nextId - 1)

\* the rotation and the save have both finished, and the save was made while
\* the rotation was running
SavedBesideRotation ==
    /\ rotation.pc = "done"
    /\ nextId > 0
    /\ rotation.savedAt \in { "readHot", "readWarm", "readCold", "wroteHot", "wroteWarm" }

\* the save fell between the rotation's read of the tier and its rewrite
SavedInsideWindow ==
    \/ rotation.savedTier = "hot"
         /\ rotation.savedAt \in { "readHot", "readWarm", "readCold" }
    \/ rotation.savedTier = "warm"
         /\ rotation.savedAt \in { "readWarm", "readCold", "wroteHot" }

\* the rotation read the entry and wrote it to no tier: it pruned it from
\* cold or dropped it as the duplicate of a stored entry
DiscardedByRotation ==
    /\ HoldsSaved(rotation.hot) \/ HoldsSaved(rotation.warm)
    /\ ~HoldsSaved(RotationResult.hot)
    /\ ~HoldsSaved(RotationResult.warm)
    /\ ~HoldsSaved(RotationResult.cold)

\* C30 as stated: an entry appended to hot or warm by one process while
\* another runs handlePreCompress is present in some tier once both have
\* finished, in every interleaving.  Violated by an append between the
\* rotation's read of the tier and its rewrite.
C30_AsStated ==
    SavedBesideRotation => HoldsSaved(hot) \/ HoldsSaved(warm) \/ HoldsSaved(cold)

\* C30 (an append beside a rotation), amended: the entry is present in some
\* tier once both have finished unless the append fell between the rotation's
\* read of the tier and its rewrite, or the rotation read the entry and
\* discarded it itself.
C30_AppendKept ==
    SavedBesideRotation /\ ~SavedInsideWindow
        => \/ HoldsSaved(hot) \/ HoldsSaved(warm) \/ HoldsSaved(cold)
           \/ DiscardedByRotation

\* an entry appended to warm after the rotation had read hot and before it
\* read warm, which the rotation then wrote to a tier
C30_Witness ==
    /\ rotation.pc = "done"
    /\ nextId > 0
    /\ rotation.savedTier = "warm"
    /\ rotation.savedAt = "readHot"
    /\ HoldsSaved(rotation.warm)
    /\ HoldsSaved(warm) \/ HoldsSaved(cold)

====
